---- MODULE Spec2Model ----
(***************************************************************************)
(* Model of the transaction service of finance-dashboard-backend:          *)
(* the HTTP handlers of handlers.go (getTransactions, addTransaction,      *)
(* deleteTransaction, getAnalytics) over the PostgreSQL tables of the      *)
(* schema and the optional Redis cache.                                    *)
(*                                                                         *)
(* Every database statement and every Redis command is one atomic step;    *)
(* the Go code between two of them (binding, unmarshalling, building the   *)
(* response) touches only request-local data and belongs to the step that  *)
(* precedes or follows it.  Monetary amounts are counted in cents          *)
(* (DECIMAL(10,2)), dates in days.                                         *)
(***************************************************************************)
EXTENDS Integers, Sequences, FiniteSets, TLC

VARIABLES
    phase,        \* "startup" before main has run initRedis, then "serving"
    redisClient,  \* the package variable of redis.go: "nil" or "client"
    today,        \* CURRENT_DATE of the database, a day number
    categories,   \* rows of table categories
    store,        \* rows of table transactions
    nextId,       \* next value of the SERIAL sequence of transactions.id
    cache,        \* Redis: key -> entry
    handler,      \* per slot: the handler that runs in it
    pc,           \* per slot: the next step of the handler
    body,         \* per slot: the handler's local result, then the response body
    status,       \* per slot: the HTTP status sent, 0 while none is
    ops,          \* per slot: the I/O the request has done, in order
    input,        \* per slot: the id parameter or the body it came with
    omits,        \* per slot: the requests whose mutation was committed
                  \*   after the slot's result was read and has not returned yet
    overtaken,    \* per slot: a mutation committed after the slot's
                  \*   result was read has returned success
    stale,        \* per slot: the slot's result omitted, when the handler
                  \*   obtained it, a mutation that had already returned success
    changed,      \* per slot: the slot's statement has changed table transactions
    accepted,     \* number of requests accepted so far
    round,        \* side by side: 1 while the service runs without a cache
                  \*   client, 2 while it runs with one
    log,          \* side by side: the requests of round 1 and their responses
    cursor,       \* side by side: the request of log that round 2 handles next
    lost,         \* side by side: a Del command of round 2 has failed
    age,          \* with a clock: per key, the time since its entry was written
    budgets,      \* rows of table budgets
    budgetSeq,    \* next value of the SERIAL sequence of budgets.id
    seedPc,       \* per invocation of seedDemoData in progress: its next step
    seedTx,       \* per invocation: the rows inserted in its open transaction
    seedRuns,     \* invocations of seedDemoData begun so far
    catIndex,     \* the unique index idx_categories_name_type exists
    catSeq,       \* next value of the SERIAL sequence of categories.id
    dialFn,       \* the function that connects: "initDB" or "setupDatabase"
    dialPc,       \* its next step
    attempt,      \* i of its retry loop
    openConns     \* the attempts whose *sql.DB is open (not closed)

boot  == <<phase, redisClient>>
db    == <<today, categories, store, nextId>>
slot  == <<handler, pc, body, status, ops, input>>
ghost == <<omits, overtaken, stale, changed>>
run   == <<accepted>>
pair  == <<round, log, cursor, lost>>
clock == <<age>>
setup == <<budgets, budgetSeq, seedPc, seedTx, seedRuns, catIndex, catSeq>>
dial  == <<dialFn, dialPc, attempt, openConns>>
vars  == <<boot, db, cache, slot, ghost, run, pair, clock, setup, dial>>

-----------------------------------------------------------------------------
(* Bounds of the model *)

\* concurrent requests in flight
NProcs == 2

\* requests accepted in a run
MaxReq == 3

\* the slots in which requests are handled
Procs == 1..NProcs

-----------------------------------------------------------------------------
(* Program constants *)

\* INTERVAL '30 days' of both analytics queries
WindowDays == 30

\* LIMIT 100 of the listing query
ListLimit == 100

\* 60*time.Second
TransactionsTTL == 60

\* 5*time.Minute, in seconds
AnalyticsTTL == 300

Keys == {"transactions", "analytics"}

\* category_id NULL (a nil *int)
NoCategory == 0

\* the rows of seedSQL, with the ids SERIAL gives them on an empty table
SeedCategories ==
    { [id |-> 1, name |-> "Groceries",      type |-> "expense", color |-> "#e74c3c"],
      [id |-> 2, name |-> "Rent",           type |-> "expense", color |-> "#e67e22"],
      [id |-> 3, name |-> "Utilities",      type |-> "expense", color |-> "#f39c12"],
      [id |-> 4, name |-> "Transportation", type |-> "expense", color |-> "#3498db"],
      [id |-> 5, name |-> "Entertainment",  type |-> "expense", color |-> "#9b59b6"],
      [id |-> 6, name |-> "Salary",         type |-> "income",  color |-> "#27ae60"],
      [id |-> 7, name |-> "Freelance",      type |-> "income",  color |-> "#16a085"] }

-----------------------------------------------------------------------------
(* Helpers *)

Min(a, b) == IF a <= b THEN a ELSE b

RECURSIVE SumAmounts(_)
SumAmounts(S) ==
    IF S = {} THEN 0
    ELSE LET t == CHOOSE x \in S : TRUE
         IN  t.amount + SumAmounts(S \ {t})

\* the largest id of a table's rows
MaxId(rows) ==
    IF rows = {} THEN 0
    ELSE CHOOSE m \in { r.id : r \in rows } : \A r \in rows : r.id <= m

\* every arrangement of the elements of S in a sequence
Orderings(S) ==
    { f \in [1..Cardinality(S) -> S] : \A i, j \in DOMAIN f : i # j => f[i] # f[j] }

-----------------------------------------------------------------------------
(* The SQL statements *)

\* a window whose first day is left out
InWindow_Strict(t, day) == t.date > day - WindowDays

\* WHERE date >= CURRENT_DATE - INTERVAL '30 days'
InWindow(t, day) == t.date >= day - WindowDays

\* a summary whose count leaves out the rows that are neither income nor
\* expense
SummaryQuery_TypedCount(txs, day) ==
    LET W == { t \in txs : InWindow(t, day) }
    IN  [ total_income      |-> SumAmounts({ t \in W : t.type = "income" }),
          total_expenses    |-> SumAmounts({ t \in W : t.type = "expense" }),
          transaction_count |-> Cardinality({ t \in W : t.type \in {"income", "expense"} }) ]

\* summaryQuery: the two COALESCE(SUM(CASE ...), 0) and the COUNT of the rows
\* of the window
SummaryQuery(txs, day) ==
    LET W == { t \in txs : InWindow(t, day) }
    IN  [ total_income      |-> SumAmounts({ t \in W : t.type = "income" }),
          total_expenses    |-> SumAmounts({ t \in W : t.type = "expense" }),
          transaction_count |-> Cardinality(W) ]

\* categoryQuery without its ORDER BY: the inner join, the WHERE and the
\* GROUP BY c.name, c.color with SUM(t.amount)
CategoryGroups(txs, cats, day) ==
    LET J    == { t \in txs : /\ InWindow(t, day)
                              /\ t.type = "expense"
                              /\ \E c \in cats : c.id = t.category_id }
        CatOf(t) == CHOOSE c \in cats : c.id = t.category_id
        Grp  == { <<CatOf(t).name, CatOf(t).color>> : t \in J }
    IN  { [ name  |-> g[1],
            color |-> g[2],
            total |-> SumAmounts({ t \in J : <<CatOf(t).name, CatOf(t).color>> = g }) ]
          : g \in Grp }

\* a categoryQuery without its ORDER BY
CategoryQuery_Unordered(txs, cats, day) == Orderings(CategoryGroups(txs, cats, day))

\* categoryQuery: the result sets ORDER BY total DESC allows (the order of
\* equal totals is the database's choice)
CategoryQuery(txs, cats, day) ==
    { r \in Orderings(CategoryGroups(txs, cats, day)) :
        \A i, j \in DOMAIN r : i < j => r[i].total >= r[j].total }

\* one row of the listing: t.* LEFT JOIN categories c ON t.category_id = c.id
Joined(t, cats) ==
    LET m == { c \in cats : c.id = t.category_id }
    IN  [ id             |-> t.id,
          date           |-> t.date,
          amount         |-> t.amount,
          category_id    |-> t.category_id,
          type           |-> t.type,
          category_name  |-> IF m = {} THEN "null" ELSE (CHOOSE c \in m : TRUE).name,
          category_color |-> IF m = {} THEN "null" ELSE (CHOOSE c \in m : TRUE).color ]

\* the listing query: the result sets ORDER BY t.date DESC LIMIT 100 allows
\* (the order of equal dates, and which of them the limit cuts, is the
\* database's choice)
ListQuery(txs, cats) ==
    { SubSeq(r, 1, Min(Len(r), ListLimit)) :
        r \in { o \in Orderings({ Joined(t, cats) : t \in txs }) :
                  \A i, j \in DOMAIN o : i < j => o[i].date >= o[j].date } }

\* What the handler's loop "for rows.Next() { rows.Scan(...) }" is left with
\* for a result set rs: the query may fail; a Scan may fail; rows.Next() may
\* end the loop early on an error (which only rows.Err() would report); or
\* all rows are read.
ReadRows(rs) ==
    { [err |-> "query", rows |-> <<>>], [err |-> "none", rows |-> rs] }
    \cup (IF Len(rs) > 0 THEN { [err |-> "scan", rows |-> <<>>] } ELSE {})
    \cup { [err |-> "next", rows |-> SubSeq(rs, 1, k)] : k \in 0..(Len(rs) - 1) }

\* an INSERT that gives every row the id 1
InsertedRow_FixedId(b, id) ==
    [ id |-> 1, date |-> b.date, amount |-> b.amount,
      category_id |-> b.category_id, type |-> b.type ]

\* INSERT INTO transactions ... RETURNING: the row stored for a bound body;
\* id comes from the sequence
InsertedRow(b, id) ==
    [ id |-> id, date |-> b.date, amount |-> b.amount,
      category_id |-> b.category_id, type |-> b.type ]

\* idx_categories_name_type
UniqueNameType(cats) ==
    \A c, e \in cats : (c.name = e.name /\ c.type = e.type) => c = e

\* category_id INTEGER REFERENCES categories(id)
ForeignKeyOk(b, cats) ==
    b.category_id = NoCategory \/ \E c \in cats : c.id = b.category_id

\* a DELETE whose WHERE is "id <= $1"
DeleteById_UpTo(txs, id) == { t \in txs : t.id > id }

\* DELETE FROM transactions WHERE id = $1
DeleteById(txs, id) == { t \in txs : t.id # id }

-----------------------------------------------------------------------------
(* encoding/json and strconv *)

\* json.Marshal of a value of the Go type named by kind
Marshal(kind, value) == [ kind |-> kind, value |-> value, complete |-> TRUE ]

\* a payload whose bytes end before the value does
Garbled(payload) == [ payload EXCEPT !.complete = FALSE ]

\* a decoding that loses the last row of a listing and the rows of a breakdown
Unmarshal_Lossy(kind, payload) ==
    IF payload.complete /\ payload.kind = kind
    THEN [ err |-> FALSE,
           value |-> IF kind = "transactions"
                     THEN SubSeq(payload.value, 1, Len(payload.value) - 1)
                     ELSE [ payload.value EXCEPT !.byCategory = <<>> ] ]
    ELSE [ err |-> TRUE,  value |-> <<>> ]

\* json.Unmarshal into a value of the Go type named by kind
Unmarshal(kind, payload) ==
    IF payload.complete /\ payload.kind = kind
    THEN [ err |-> FALSE, value |-> payload.value ]
    ELSE [ err |-> TRUE,  value |-> <<>> ]

Digits == <<"0", "1", "2", "3", "4", "5", "6", "7", "8", "9">>

IsDigit(c) == \E d \in DOMAIN Digits : Digits[d] = c

DigitValue(c) == (CHOOSE d \in DOMAIN Digits : Digits[d] = c) - 1

RECURSIVE DecimalValue(_)
DecimalValue(s) ==
    IF s = <<>> THEN 0
    ELSE 10 * DecimalValue(SubSeq(s, 1, Len(s) - 1)) + DigitValue(s[Len(s)])

\* a conversion in the manner of C's atoi: the digits that lead the string,
\* and never an error
Atoi_Lenient(s) ==
    LET lead == { n \in 0..Len(s) : \A i \in 1..n : IsDigit(s[i]) }
        n    == CHOOSE m \in lead : \A k \in lead : k <= m
    IN  [ err |-> FALSE, value |-> DecimalValue(SubSeq(s, 1, n)) ]

\* strconv.Atoi of a string given as the sequence of its characters: an
\* optional sign, then one or more decimal digits
Atoi(s) ==
    LET signed == Len(s) > 0 /\ s[1] \in {"+", "-"}
        digits == IF signed THEN Tail(s) ELSE s
    IN  IF digits = <<>> \/ \E i \in DOMAIN digits : ~IsDigit(digits[i])
        THEN [ err |-> TRUE, value |-> 0 ]
        ELSE [ err |-> FALSE,
               value |-> IF signed /\ s[1] = "-"
                         THEN 0 - DecimalValue(digits)
                         ELSE DecimalValue(digits) ]

-----------------------------------------------------------------------------
(* Requests *)

\* c.Param("id") values, each the sequence of its characters
IdParams == { <<"1">>, <<"2">>, <<"-", "1">>, <<"1", "x">> }

\* request bodies of POST /api/transactions: one that is no JSON object of the
\* Transaction shape, and Transaction objects: a categorised expense dated on
\* the first day of the analytics window, an uncategorised income dated the
\* day before it, and an expense that names category 9, which does not exist
Bodies(day) ==
    { [json |-> "malformed"],
      [json |-> "object", date |-> day - WindowDays, amount |-> 10000,
       category_id |-> 1, type |-> "expense"],
      [json |-> "object", date |-> day - WindowDays - 1, amount |-> 5000,
       category_id |-> NoCategory, type |-> "income"],
      [json |-> "object", date |-> day - WindowDays, amount |-> 10000,
       category_id |-> 9, type |-> "expense"] }

\* c.ShouldBindJSON(&t)
ShouldBindJSON(raw) == [ err |-> raw.json # "object", t |-> raw ]

-----------------------------------------------------------------------------
(* Redis *)

Absent == [ present |-> FALSE ]

\* an entry: the payload and its TTL; and, of the mutations committed after the
\* payload's data was read, those still running (omits) and whether one has
\* returned success (stale)
Entry(payload, ttl, om, st) ==
    [ present |-> TRUE, val |-> payload, ttl |-> ttl, omits |-> om, stale |-> st ]

\* redisClient.Get(ctx, key).Result(): an error (redis.Nil when the key is
\* absent, or a failed command), or the bytes stored, whole or cut short
CacheGet(key) ==
    { [err |-> TRUE, val |-> Absent] }
    \cup (IF cache[key].present
          THEN { [err |-> FALSE, val |-> cache[key].val],
                 [err |-> FALSE, val |-> Garbled(cache[key].val)] }
          ELSE {})

\* a Del that puts back an empty payload under a key it finds absent
CacheDel_Toggle(c, key) ==
    [c EXCEPT ![key] = IF c[key].present
                       THEN Absent
                       ELSE [ present |-> TRUE,
                              val |-> [ kind |-> key, value |-> <<>>, complete |-> TRUE ],
                              ttl |-> 0, omits |-> {}, stale |-> FALSE ]]

\* redisClient.Del(ctx, key) that reaches Redis
CacheDel(c, key) == [c EXCEPT ![key] = Absent]

\* the two TTLs in each other's place
TTLOf_Swapped(key) == IF key = "transactions" THEN AnalyticsTTL ELSE TransactionsTTL

\* the TTL each handler passes to SetEx
TTLOf(key) == IF key = "transactions" THEN TransactionsTTL ELSE AnalyticsTTL

-----------------------------------------------------------------------------
(* State *)

\* no row inserted in an open transaction
NoRows == [ txs |-> {}, buds |-> {} ]

\* table budgets is empty, no seedDemoData runs, and the schema is that of
\* the tables the service starts on
NoSetup ==
    /\ budgets = {}
    /\ budgetSeq = 1
    /\ seedPc = [s \in Procs |-> "idle"]
    /\ seedTx = [s \in Procs |-> NoRows]
    /\ seedRuns = 0
    /\ catIndex = UniqueNameType(categories)
    /\ catSeq = MaxId(categories) + 1

\* initDB has connected at its first attempt and returned nil
Connected ==
    /\ dialFn = "initDB"
    /\ dialPc = "ready"
    /\ attempt = 0
    /\ openConns = {0}

NoBody == [ kind |-> "none" ]
ErrorBody == [ kind |-> "error" ]

\* no response is on its way out
Quiet == \A q \in Procs : pc[q] # "done"

\* a request is accepted, into the lowest free slot, once the router runs
CanStart(p) ==
    /\ phase = "serving"
    /\ accepted < MaxReq
    /\ Quiet
    /\ pc[p] = "idle"
    /\ \A q \in Procs : q < p => pc[q] # "idle"

At(p, h, l) == Quiet /\ handler[p] = h /\ pc[p] = l

\* the new state of slot p (but for its input)
Slot(p, h, npc, nbody, nstatus, nops) ==
    /\ handler' = [handler EXCEPT ![p] = h]
    /\ pc'      = [pc EXCEPT ![p] = npc]
    /\ body'    = [body EXCEPT ![p] = nbody]
    /\ status'  = [status EXCEPT ![p] = nstatus]
    /\ ops'     = [ops EXCEPT ![p] = nops]

\* slot q holds a result read from the store that it has not sent yet
HoldsResult(q) == pc[q] \in {"bycat", "setex"}

\* request p has just read its result from the store
FreshResult(p) ==
    /\ omits' = [omits EXCEPT ![p] = {}]
    /\ overtaken' = [overtaken EXCEPT ![p] = FALSE]
    /\ stale' = [stale EXCEPT ![p] = FALSE]
    /\ UNCHANGED changed

\* request p has changed table transactions: every result and payload read
\* before omits the change
Committed(p, c) ==
    /\ omits' = [q \in Procs |-> IF q # p /\ HoldsResult(q) THEN omits[q] \cup {p} ELSE omits[q]]
    /\ cache' = [k \in Keys |-> IF c[k].present
                                THEN [c[k] EXCEPT !.omits = @ \cup {p}]
                                ELSE c[k]]

\* the mutation of request p has returned success; c is the cache then
Returned(p, c) ==
    /\ omits' = [q \in Procs |-> omits[q] \ {p}]
    /\ overtaken' = [q \in Procs |-> overtaken[q] \/ p \in omits[q]]
    /\ cache' = [k \in Keys |-> IF c[k].present
                                THEN [c[k] EXCEPT !.omits = @ \ {p},
                                                  !.stale = @ \/ p \in c[k].omits]
                                ELSE c[k]]

Init ==
    /\ phase = "startup"
    /\ redisClient = "nil"
    /\ today = WindowDays + 1
    /\ categories = SeedCategories
    /\ store = {}
    /\ nextId = 1
    /\ cache = [k \in Keys |-> Absent]
    /\ handler = [p \in Procs |-> "none"]
    /\ pc = [p \in Procs |-> "idle"]
    /\ body = [p \in Procs |-> NoBody]
    /\ status = [p \in Procs |-> 0]
    /\ ops = [p \in Procs |-> <<>>]
    /\ omits = [p \in Procs |-> {}]
    /\ overtaken = [p \in Procs |-> FALSE]
    /\ stale = [p \in Procs |-> FALSE]
    /\ changed = [p \in Procs |-> FALSE]
    /\ input = [p \in Procs |-> <<>>]
    /\ accepted = 0
    /\ round = 1
    /\ log = <<>>
    /\ cursor = 1
    /\ lost = FALSE
    /\ age = [k \in Keys |-> 0]
    /\ NoSetup
    /\ Connected

-----------------------------------------------------------------------------
(* Startup *)

\* main: initRedis sets redisClient and pings; on an error main clears it
InitRedis ==
    /\ phase = "startup"
    /\ \E pingOk \in BOOLEAN :
         redisClient' = IF pingOk THEN "client" ELSE "nil"
    /\ phase' = "serving"
    /\ UNCHANGED <<db, cache, slot, ghost, run>>

-----------------------------------------------------------------------------
(* The read handlers *)

\* a cache read that does not look at redisClient
TryCache_NoGuard(p, h, key, missPc) ==
    /\ CanStart(p)
    /\ \E reply \in CacheGet(key) :
         IF reply.err
         THEN /\ Slot(p, h, missPc, NoBody, 0, <<"get:miss">>)
              /\ UNCHANGED stale
         ELSE LET u == Unmarshal(key, reply.val)
              IN  IF u.err
                  THEN /\ Slot(p, h, missPc, NoBody, 0, <<"get:badpayload">>)
                       /\ UNCHANGED stale
                  ELSE /\ Slot(p, h, "done", [kind |-> key, value |-> u.value], 200,
                               <<"get:hit">>)
                       /\ stale' = [stale EXCEPT ![p] = cache[key].stale]
    /\ accepted' = accepted + 1
    /\ UNCHANGED <<boot, db, cache, omits, overtaken, changed, input>>

\* a cache read that goes on to the store after a hit
TryCache_Requery(p, h, key, missPc) ==
    /\ CanStart(p)
    /\ IF redisClient = "nil"
       THEN Slot(p, h, missPc, NoBody, 0, <<>>)
       ELSE \E reply \in CacheGet(key) :
              IF reply.err
              THEN Slot(p, h, missPc, NoBody, 0, <<"get:miss">>)
              ELSE IF Unmarshal(key, reply.val).err
                   THEN Slot(p, h, missPc, NoBody, 0, <<"get:badpayload">>)
                   ELSE Slot(p, h, missPc, NoBody, 0, <<"get:hit">>)
    /\ accepted' = accepted + 1
    /\ UNCHANGED <<boot, db, cache, omits, overtaken, stale, changed, input>>

\* "Try to get from cache" of getTransactions and getAnalytics: Get, Unmarshal
\* and, on success of both, the response
TryCache(p, h, key, missPc) ==
    /\ CanStart(p)
    /\ IF redisClient = "nil"
       THEN /\ Slot(p, h, missPc, NoBody, 0, <<>>)
            /\ UNCHANGED stale
       ELSE \E reply \in CacheGet(key) :
              IF reply.err
              THEN /\ Slot(p, h, missPc, NoBody, 0, <<"get:miss">>)
                   /\ UNCHANGED stale
              ELSE LET u == Unmarshal(key, reply.val)
                   IN  IF u.err
                       THEN /\ Slot(p, h, missPc, NoBody, 0, <<"get:badpayload">>)
                            /\ UNCHANGED stale
                       ELSE /\ Slot(p, h, "done", [kind |-> key, value |-> u.value], 200,
                                    <<"get:hit">>)
                            /\ stale' = [stale EXCEPT ![p] = cache[key].stale]
    /\ accepted' = accepted + 1
    /\ UNCHANGED <<boot, db, cache, omits, overtaken, changed, input>>

\* the value a read handler builds of the rows it has read: the slice
\* transactions, or the Analytics of the summary read before and byCategory
ResultOf(p, h, rows) ==
    IF h = "getTransactions"
    THEN [ kind |-> "transactions", value |-> rows ]
    ELSE [ kind |-> "analytics",
           value |-> [ summary |-> body[p].value, byCategory |-> rows ] ]

\* the rows loop of either read handler, over result set rs, then either the
\* 500 response, or the result (made of the rows read) on its way to SetEx, or
\* (without a cache) the 200 response
ScanRows(p, h, rs) ==
    \E r \in ReadRows(rs) :
        IF r.err \in {"query", "scan"}
        THEN Slot(p, h, "done", ErrorBody, 500, Append(ops[p], "store:err"))
        ELSE LET ev == IF r.err = "next" THEN "store:truncated" ELSE "store:ok"
             IN  IF redisClient = "nil"
                 THEN Slot(p, h, "done", ResultOf(p, h, r.rows), 200, Append(ops[p], ev))
                 ELSE Slot(p, h, "setex", ResultOf(p, h, r.rows), 0, Append(ops[p], ev))

\* a population that answers 500 when SetEx fails
Populate_Propagate(p, h, key) ==
    /\ At(p, h, "setex")
    /\ \E setOk \in BOOLEAN :
         /\ cache' = IF setOk
                     THEN [cache EXCEPT ![key] = Entry(Marshal(key, body[p].value), TTLOf(key),
                                                       omits[p], overtaken[p])]
                     ELSE cache
         /\ IF setOk
            THEN Slot(p, h, "done", body[p], 200, Append(ops[p], "setex:ok"))
            ELSE Slot(p, h, "done", ErrorBody, 500, Append(ops[p], "setex:err"))
    /\ UNCHANGED <<boot, db, ghost, run, input>>

\* "Cache for ...": Marshal, SetEx (its error is not looked at), the response
Populate(p, h, key) ==
    /\ At(p, h, "setex")
    /\ \E setOk \in BOOLEAN :
         /\ cache' = IF setOk
                     THEN [cache EXCEPT ![key] = Entry(Marshal(key, body[p].value), TTLOf(key),
                                                       omits[p], overtaken[p])]
                     ELSE cache
         /\ Slot(p, h, "done", body[p], 200,
                 Append(ops[p], IF setOk THEN "setex:ok" ELSE "setex:err"))
    /\ UNCHANGED <<boot, db, ghost, run, input>>

getTransactions_Get(p) == TryCache(p, "getTransactions", "transactions", "query")

getTransactions_Query(p) ==
    /\ At(p, "getTransactions", "query")
    /\ \E rs \in ListQuery(store, categories) :
         ScanRows(p, "getTransactions", rs)
    /\ FreshResult(p)
    /\ UNCHANGED <<boot, db, cache, run, input>>

getTransactions_SetEx(p) == Populate(p, "getTransactions", "transactions")

getAnalytics_Get(p) == TryCache(p, "getAnalytics", "analytics", "summary")

\* db.QueryRow(summaryQuery).Scan(...)
getAnalytics_Summary(p) ==
    /\ At(p, "getAnalytics", "summary")
    /\ \E dbOk \in BOOLEAN :
         IF dbOk
         THEN Slot(p, "getAnalytics", "bycat",
                   [kind |-> "summary", value |-> SummaryQuery(store, today)], 0,
                   Append(ops[p], "store:ok"))
         ELSE Slot(p, "getAnalytics", "done", ErrorBody, 500, Append(ops[p], "store:err"))
    /\ FreshResult(p)
    /\ UNCHANGED <<boot, db, cache, run, input>>

\* db.Query(categoryQuery) and its rows loop: the result is the summary read
\* before and the rows read now
getAnalytics_ByCategory(p) ==
    /\ At(p, "getAnalytics", "bycat")
    /\ \E rs \in CategoryQuery(store, categories, today) :
         ScanRows(p, "getAnalytics", rs)
    /\ UNCHANGED <<boot, db, cache, ghost, run, input>>

getAnalytics_SetEx(p) == Populate(p, "getAnalytics", "analytics")

-----------------------------------------------------------------------------
(* The write handlers *)

\* a mutation that answers at once, whether or not there is a cache client
AfterMutation_NoInvalidate(p, h, nbody, okStatus, chg) ==
    /\ changed' = [changed EXCEPT ![p] = chg]
    /\ Slot(p, h, "done", nbody, okStatus, <<"store:ok">>)
    /\ overtaken' = [q \in Procs |-> overtaken[q] \/ (chg /\ q # p /\ HoldsResult(q))]
    /\ UNCHANGED <<cache, omits, stale>>

\* the end of the first step of a mutation whose statement succeeded; changed
\* tells whether it changed the table.  Without a cache client the success
\* response follows at once.
AfterMutation(p, h, nbody, okStatus, chg) ==
    /\ changed' = [changed EXCEPT ![p] = chg]
    /\ IF redisClient = "nil"
       THEN /\ Slot(p, h, "done", nbody, okStatus, <<"store:ok">>)
            /\ overtaken' = [q \in Procs |-> overtaken[q] \/ (chg /\ q # p /\ HoldsResult(q))]
            /\ UNCHANGED <<cache, omits, stale>>
       ELSE /\ Slot(p, h, "del_transactions", nbody, 0, <<"store:ok">>)
            /\ IF chg THEN Committed(p, cache) ELSE UNCHANGED <<cache, omits>>
            /\ UNCHANGED <<overtaken, stale>>

\* a failed statement after which the handler goes on to the invalidation
StoreError_NoReturn(p, h) ==
    /\ Slot(p, h, IF redisClient = "nil" THEN "done" ELSE "del_transactions",
            ErrorBody, IF redisClient = "nil" THEN 500 ELSE 0, <<"store:err">>)
    /\ UNCHANGED <<cache, ghost>>

\* "if err != nil" after the statement of a mutation: the 500 response and
\* the return
StoreError(p, h) ==
    /\ Slot(p, h, "done", ErrorBody, 500, <<"store:err">>)
    /\ UNCHANGED <<cache, ghost>>

\* a handler that answers after the Del of "transactions" and issues no Del
\* of "analytics"
InvalidateAnalytics_Skip(p, h, okStatus, DelOutcomes) ==
    /\ At(p, h, "del_analytics")
    /\ Returned(p, cache)
    /\ Slot(p, h, "done", body[p], okStatus, ops[p])
    /\ UNCHANGED <<boot, db, stale, changed, run, input>>

\* an invalidation that stores an empty listing under "transactions"
InvalidateTransactions_Reset(p, h, DelOutcomes) ==
    /\ At(p, h, "del_transactions")
    /\ cache' = [cache EXCEPT !["transactions"] =
                     Entry(Marshal("transactions", <<>>), TransactionsTTL, {}, FALSE)]
    /\ Slot(p, h, "del_analytics", body[p], 0, Append(ops[p], "del:transactions:ok"))
    /\ UNCHANGED <<boot, db, ghost, run, input>>

\* a Del of "transactions" whose error ends the request with 500
InvalidateTransactions_Propagate(p, h, DelOutcomes) ==
    /\ At(p, h, "del_transactions")
    /\ \E delOk \in DelOutcomes :
         IF delOk
         THEN /\ cache' = CacheDel(cache, "transactions")
              /\ Slot(p, h, "del_analytics", body[p], 0, Append(ops[p], "del:transactions:ok"))
         ELSE /\ cache' = cache
              /\ Slot(p, h, "done", ErrorBody, 500, Append(ops[p], "del:transactions:err"))
    /\ UNCHANGED <<boot, db, ghost, run, input>>

\* redisClient.Del(ctx, "transactions"): its result is not looked at
InvalidateTransactions(p, h, DelOutcomes) ==
    /\ At(p, h, "del_transactions")
    /\ \E delOk \in DelOutcomes :
         /\ cache' = IF delOk THEN CacheDel(cache, "transactions") ELSE cache
         /\ Slot(p, h, "del_analytics", body[p], 0,
                 Append(ops[p], IF delOk THEN "del:transactions:ok" ELSE "del:transactions:err"))
    /\ UNCHANGED <<boot, db, ghost, run, input>>

\* redisClient.Del(ctx, "analytics"), then the success response
InvalidateAnalytics(p, h, okStatus, DelOutcomes) ==
    /\ At(p, h, "del_analytics")
    /\ \E delOk \in DelOutcomes :
         /\ Returned(p, IF delOk THEN CacheDel(cache, "analytics") ELSE cache)
         /\ Slot(p, h, "done", body[p], okStatus,
                 Append(ops[p], IF delOk THEN "del:analytics:ok" ELSE "del:analytics:err"))
    /\ UNCHANGED <<boot, db, stale, changed, run, input>>

\* addTransaction up to and including the INSERT.  The statement fails when
\* the database cannot be reached ("down": nothing happens) or when it rejects
\* the row ("rejected": a value of the sequence is used up all the same)
addTransaction_Insert(p, raw) ==
    /\ CanStart(p)
    /\ LET bound == ShouldBindJSON(raw)
       IN  IF bound.err
           THEN /\ Slot(p, "addTransaction", "done", ErrorBody, 400, <<"bind:err">>)
                /\ UNCHANGED <<store, nextId, cache, ghost>>
           ELSE \E outcome \in {"ok", "rejected", "down"} :
                  /\ outcome = "ok" => ForeignKeyOk(bound.t, categories)
                  /\ IF outcome = "ok"
                     THEN /\ store' = store \cup {InsertedRow(bound.t, nextId)}
                          /\ nextId' = nextId + 1
                          /\ AfterMutation(p, "addTransaction",
                                           [kind |-> "created", value |-> InsertedRow(bound.t, nextId)],
                                           201, TRUE)
                     ELSE /\ StoreError(p, "addTransaction")
                          /\ nextId' = IF outcome = "rejected" THEN nextId + 1 ELSE nextId
                          /\ UNCHANGED store
    /\ input' = [input EXCEPT ![p] = raw]
    /\ accepted' = accepted + 1
    /\ UNCHANGED <<boot, today, categories>>

addTransaction_DelTransactions(p, DelOutcomes) ==
    InvalidateTransactions(p, "addTransaction", DelOutcomes)

addTransaction_DelAnalytics(p, DelOutcomes) ==
    InvalidateAnalytics(p, "addTransaction", 201, DelOutcomes)

\* deleteTransaction up to and including the DELETE
deleteTransaction_Exec(p, param) ==
    /\ CanStart(p)
    /\ LET id == Atoi(param)
       IN  IF id.err
           THEN /\ Slot(p, "deleteTransaction", "done", ErrorBody, 400, <<"atoi:err">>)
                /\ UNCHANGED <<store, cache, ghost>>
           ELSE \E dbOk \in BOOLEAN :
                  IF dbOk
                  THEN /\ store' = DeleteById(store, id.value)
                       /\ AfterMutation(p, "deleteTransaction", [kind |-> "message"], 200,
                                        DeleteById(store, id.value) # store)
                  ELSE /\ StoreError(p, "deleteTransaction")
                       /\ UNCHANGED store
    /\ input' = [input EXCEPT ![p] = param]
    /\ accepted' = accepted + 1
    /\ UNCHANGED <<boot, today, categories, nextId>>

deleteTransaction_DelTransactions(p, DelOutcomes) ==
    InvalidateTransactions(p, "deleteTransaction", DelOutcomes)

deleteTransaction_DelAnalytics(p, DelOutcomes) ==
    InvalidateAnalytics(p, "deleteTransaction", 200, DelOutcomes)

-----------------------------------------------------------------------------
(* Redis drops a key whose TTL has run out *)

Expire(key) ==
    /\ Quiet
    /\ cache[key].present
    /\ cache' = CacheDel(cache, key)
    /\ UNCHANGED <<boot, db, slot, ghost, run>>

-----------------------------------------------------------------------------
(* The response has gone out: the request's slot is free again.  A finished
   request does nothing more, so it leaves before anything else happens. *)

Return(p) ==
    /\ pc[p] = "done"
    /\ Slot(p, "none", "idle", NoBody, 0, <<>>)
    /\ omits' = [omits EXCEPT ![p] = {}]
    /\ overtaken' = [overtaken EXCEPT ![p] = FALSE]
    /\ stale' = [stale EXCEPT ![p] = FALSE]
    /\ changed' = [changed EXCEPT ![p] = FALSE]
    /\ input' = [input EXCEPT ![p] = <<>>]
    /\ UNCHANGED <<boot, db, cache, run>>

-----------------------------------------------------------------------------

\* the steps of the service; DelOutcomes are the outcomes a Del command can
\* have (TRUE: it reaches Redis)
\* step A of the service running by itself
Alone(A) == A /\ UNCHANGED <<pair, clock, setup, dial>>

Serve(DelOutcomes) ==
    \/ Alone(InitRedis)
    \/ \E p \in Procs : Alone(getTransactions_Get(p))
    \/ \E p \in Procs : Alone(getTransactions_Query(p))
    \/ \E p \in Procs : Alone(getTransactions_SetEx(p))
    \/ \E p \in Procs : Alone(getAnalytics_Get(p))
    \/ \E p \in Procs : Alone(getAnalytics_Summary(p))
    \/ \E p \in Procs : Alone(getAnalytics_ByCategory(p))
    \/ \E p \in Procs : Alone(getAnalytics_SetEx(p))
    \/ \E p \in Procs : \E raw \in Bodies(today) : Alone(addTransaction_Insert(p, raw))
    \/ \E p \in Procs : Alone(addTransaction_DelTransactions(p, DelOutcomes))
    \/ \E p \in Procs : Alone(addTransaction_DelAnalytics(p, DelOutcomes))
    \/ \E p \in Procs : \E param \in IdParams : Alone(deleteTransaction_Exec(p, param))
    \/ \E p \in Procs : Alone(deleteTransaction_DelTransactions(p, DelOutcomes))
    \/ \E p \in Procs : Alone(deleteTransaction_DelAnalytics(p, DelOutcomes))
    \/ \E key \in Keys : Alone(Expire(key))
    \/ \E p \in Procs : Alone(Return(p))

Next == Serve(BOOLEAN)

Spec == Init /\ [][Next]_vars

\* the runs in which every Del command reaches Redis
NextDelOk == Serve({TRUE})

SpecDelOk == Init /\ [][NextDelOk]_vars

-----------------------------------------------------------------------------
(* Properties of the handlers *)

Reads  == {"getTransactions", "getAnalytics"}
Writes == {"addTransaction", "deleteTransaction"}

\* the I/O events of the request in slot p
Events(p) == { ops[p][i] : i \in DOMAIN ops[p] }

\* the response of the request in slot p is on its way out
Responded(p) == pc[p] = "done"

\* the success status of each write handler
SuccessOf(h) == IF h = "addTransaction" THEN 201 ELSE 200

\* the request in slot p has issued, after its statement succeeded, a Del of
\* "transactions" and then a Del of "analytics"
IssuedBothDeletes(p) ==
    /\ Len(ops[p]) = 3
    /\ ops[p][1] = "store:ok"
    /\ ops[p][2] \in {"del:transactions:ok", "del:transactions:err"}
    /\ ops[p][3] \in {"del:analytics:ok", "del:analytics:err"}

\* C1: a getAnalytics request that begins after an addTransaction or a
\* deleteTransaction has returned success never answers with analytics
\* computed from a state of the store that precedes that mutation.
C1_AnalyticsReflectsReturnedMutations ==
    \A p \in Procs :
        (Responded(p) /\ handler[p] = "getAnalytics" /\ status[p] = 200) => ~stale[p]

\* C2: when every cache delete succeeds, no read that begins after a mutation
\* has returned success is served a cached payload, of either key, that omits
\* that mutation.
C2_NoStaleHitWhenDeletesSucceed ==
    \A p \in Procs :
        (handler[p] \in Reads /\ ops[p] = <<"get:hit">>) => ~stale[p]

\* C4: when the statement of addTransaction or deleteTransaction fails, the
\* request ends there with status 500: the step leaves the rows of the store
\* and both cache keys as they were, and the request issues no cache command.
C4_StoreFailureAborts ==
    /\ [](\A p \in Procs :
            (handler[p] \in Writes /\ "store:err" \in Events(p))
                => (Responded(p) /\ status[p] = 500 /\ ops[p] = <<"store:err">>))
    /\ [][\A p \in Procs :
            (pc[p] = "idle" /\ handler'[p] \in Writes /\ ops'[p] = <<"store:err">>)
                => (store' = store /\ cache' = cache)]_vars

\* a DELETE has failed while there were rows and a cached listing
C4_Witness ==
    \E p \in Procs :
        /\ Responded(p) /\ handler[p] = "deleteTransaction"
        /\ ops[p] = <<"store:err">> /\ status[p] = 500
        /\ store # {} /\ cache["transactions"].present

\* C5 as stated: every successful addTransaction or deleteTransaction issues
\* a delete of both cache keys, after its statement and before its response.
C5_EverySuccessInvalidates ==
    \A p \in Procs :
        (Responded(p) /\ handler[p] \in Writes /\ status[p] = SuccessOf(handler[p]))
            => IssuedBothDeletes(p)

\* C5: when a cache client is configured, every successful addTransaction or
\* deleteTransaction issues a delete of "transactions" and then of
\* "analytics", both after its statement succeeded and before its response;
\* without a cache client it issues no cache command.
C5_InvalidatesWhenCacheConfigured ==
    \A p \in Procs :
        handler[p] \in Writes =>
            /\ (Responded(p) /\ status[p] = SuccessOf(handler[p]))
                   => IF redisClient = "client"
                      THEN IssuedBothDeletes(p)
                      ELSE ops[p] = <<"store:ok">>
            /\ pc[p] \in {"del_transactions", "del_analytics"}
                   => (status[p] = 0 /\ ops[p][1] = "store:ok" /\ redisClient = "client")
            /\ \A i \in DOMAIN ops[p] :
                   ops[p][i] \in {"del:transactions:ok", "del:transactions:err",
                                  "del:analytics:ok", "del:analytics:err"}
                       => (i > 1 /\ ops[p][1] = "store:ok")

\* a delete that matched no row, with rows in the table, has issued both
\* deletes and answers 200
C5_Witness ==
    \E p \in Procs :
        /\ Responded(p) /\ handler[p] = "deleteTransaction" /\ status[p] = 200
        /\ ~changed[p] /\ store # {}
        /\ IssuedBothDeletes(p)

\* C6: once the statement of addTransaction or deleteTransaction has
\* succeeded the response is the success response, whatever the outcome of
\* either cache delete; and after a failed delete of "transactions" the delete
\* of "analytics" is still issued.
C6_InvalidationFailureNotPropagated ==
    \A p \in Procs :
        (handler[p] \in Writes /\ ops[p] # <<>> /\ ops[p][1] = "store:ok") =>
            /\ Responded(p) => /\ status[p] = SuccessOf(handler[p])
                               /\ body[p].kind \in {"created", "message"}
            /\ "del:transactions:err" \in Events(p)
                   => \/ pc[p] = "del_analytics" /\ status[p] = 0
                      \/ Responded(p) /\ IssuedBothDeletes(p)

\* an addTransaction answers 201 after its delete of "transactions" failed
\* and its delete of "analytics" removed the cached analytics
C6_Witness ==
    \E p \in Procs :
        /\ Responded(p) /\ handler[p] = "addTransaction" /\ status[p] = 201
        /\ ops[p] = <<"store:ok", "del:transactions:err", "del:analytics:ok">>
        /\ cache["transactions"].present /\ ~cache["analytics"].present

\* the cache has let down the read in slot p: the lookup missed or failed,
\* the payload did not deserialize, or the population failed
CacheLetDown(p) ==
    \/ ops[p] # <<>> /\ ops[p][1] \in {"get:miss", "get:badpayload"}
    \/ "setex:err" \in Events(p)

\* the response in slot p is an answer of the store's queries on its present
\* state
AnswersFromStore(p) ==
    IF handler[p] = "getTransactions"
    THEN /\ body[p].kind = "transactions"
         /\ body[p].value \in ListQuery(store, categories)
    ELSE /\ body[p].kind = "analytics"
         /\ body[p].value.summary = SummaryQuery(store, today)
         /\ body[p].value.byCategory \in CategoryQuery(store, categories, today)

\* C7: a read that the cache lets down answers as the store path does: with
\* status 500 exactly when the store read failed, and else with status 200
\* and the result of the store's query (the query's result on the present
\* store when all rows were read and no mutation was committed since).
C7_CacheFailureDegradesToStore ==
    \A p \in Procs :
        (handler[p] \in Reads /\ Responded(p) /\ CacheLetDown(p)) =>
            /\ status[p] = IF "store:err" \in Events(p) THEN 500 ELSE 200
            /\ (status[p] = 200 /\ "store:truncated" \notin Events(p)
                  /\ omits[p] = {} /\ ~overtaken[p])
                   => AnswersFromStore(p)

\* a getAnalytics whose cached payload did not deserialize and whose SetEx
\* failed answers 200 with the analytics of a store that holds a row
C7_Witness ==
    \E p \in Procs :
        /\ Responded(p) /\ handler[p] = "getAnalytics" /\ status[p] = 200
        /\ ops[p] = <<"get:badpayload", "store:ok", "store:ok", "setex:err">>
        /\ body[p].value.summary.transaction_count > 0

\* C8: a store read of getTransactions or getAnalytics that fails at any
\* point (the query, a Scan, or an error that ends the iteration early) ends
\* the request with status 500; its rows are neither returned nor cached.
C8_NoPartialResult ==
    \A p \in Procs :
        (handler[p] \in Reads /\ Events(p) \cap {"store:err", "store:truncated"} # {})
            => (Responded(p) /\ status[p] = 500 /\ "setex:ok" \notin Events(p))

\* an id parameter that is empty or holds a character that is neither a
\* digit nor a sign
NonNumeric(s) ==
    \/ s = <<>>
    \/ \E i \in DOMAIN s :
         s[i] \notin {"0", "1", "2", "3", "4", "5", "6", "7", "8", "9", "+", "-"}

\* the input of a request to write handler h is malformed
Malformed(h, in) ==
    IF h = "deleteTransaction" THEN NonNumeric(in) ELSE in.json = "malformed"

\* C9: a deleteTransaction with a non-numeric id and an addTransaction with a
\* body of the wrong shape answer 400 in a step that leaves the store, the
\* sequence and both cache keys as they were, and issue no cache command.
C9_MalformedInputRejected ==
    [][\A p \in Procs :
         (pc[p] = "idle" /\ handler'[p] \in Writes /\ Malformed(handler'[p], input'[p]))
             => /\ pc'[p] = "done" /\ status'[p] = 400
                /\ ops'[p] \in {<<"atoi:err">>, <<"bind:err">>}
                /\ store' = store /\ nextId' = nextId /\ cache' = cache]_vars

\* a delete of id "1x" has been answered with 400 while there were rows and a
\* cached listing
C9_Witness ==
    \E p \in Procs :
        /\ Responded(p) /\ handler[p] = "deleteTransaction" /\ status[p] = 400
        /\ input[p] = <<"1", "x">>
        /\ store # {} /\ cache["transactions"].present

\* C10: the DELETE of deleteTransaction removes the row whose id is the given
\* one, if there is one, and no other row; and the request whose DELETE
\* succeeded answers 200, also when no row had that id.
C10_DeleteRemovesOnlyThatRow ==
    /\ [][\A p \in Procs :
            (pc[p] = "idle" /\ handler'[p] = "deleteTransaction" /\ ops'[p] = <<"store:ok">>)
                => LET id == Atoi(input'[p]).value
                   IN  /\ store' \subseteq store
                       /\ store \ store' = { t \in store : t.id = id }
                       /\ Cardinality(store \ store') <= 1
                       /\ changed'[p] = (store' # store)]_vars
    /\ [](\A p \in Procs :
            (handler[p] = "deleteTransaction" /\ Responded(p)
               /\ ops[p] # <<>> /\ ops[p][1] = "store:ok") => status[p] = 200)

\* a delete has removed row 1 and left row 2
C10_Witness ==
    \E p \in Procs :
        /\ handler[p] = "deleteTransaction" /\ input[p] = <<"1">> /\ changed[p]
        /\ Responded(p) /\ status[p] = 200
        /\ \E t \in store : t.id = 2

-----------------------------------------------------------------------------
(* The service with and without a cache, side by side.

   The service is started without a cache client (initRedis fails) on the
   initial store and handles requests one at a time (round 1); then it is
   started with a cache client on the same initial store and handles the same
   requests in the same order (round 2).  No statement of the store fails in
   either round and the date stays the same; Redis commands may fail and keys
   may expire. *)

\* no store read or statement of the request in slot p has failed
StoreHealthy(p) == Events(p) \cap {"store:err", "store:truncated"} = {}

\* a Del command of the request in slot p has failed
DelLost(p) == Events(p) \cap {"del:transactions:err", "del:analytics:err"} # {}

\* main up to the router, with the outcome of initRedis that the round asks for
PairInitRedis ==
    /\ InitRedis
    /\ redisClient' = IF round = 1 THEN "nil" ELSE "client"
    /\ UNCHANGED <<pair, clock, setup, dial>>

\* step A of a handler, in the one slot that the side-by-side runs use
PairStep(p, A) ==
    /\ p = 1
    /\ A
    /\ StoreHealthy(p)'
    /\ lost' = (lost \/ (round = 2 /\ DelLost(p)'))
    /\ UNCHANGED <<round, log, cursor, clock, setup, dial>>

\* first step A of a handler: in round 2 the request is the next one of log
PairAccept(p, A) ==
    /\ PairStep(p, A)
    /\ round = 2 =>
         /\ cursor <= Len(log)
         /\ handler'[p] = log[cursor].handler
         /\ input'[p] = log[cursor].input

\* the response goes out: round 1 logs the request with it, round 2 moves on
PairReturn(p) ==
    /\ Return(p)
    /\ IF round = 1
       THEN /\ log' = Append(log, [ handler |-> handler[p], input |-> input[p],
                                    status |-> status[p], body |-> body[p] ])
            /\ UNCHANGED cursor
       ELSE /\ cursor' = cursor + 1
            /\ UNCHANGED log
    /\ UNCHANGED <<round, lost, clock, setup, dial>>

\* the process is stopped and started again, on the initial store
PairRestart ==
    /\ round = 1
    /\ phase = "serving"
    /\ log # <<>>
    /\ \A q \in Procs : pc[q] = "idle"
    /\ round' = 2
    /\ phase' = "startup"
    /\ redisClient' = "nil"
    /\ store' = {}
    /\ nextId' = 1
    /\ accepted' = 0
    /\ UNCHANGED <<today, categories, cache, slot, ghost, log, cursor, lost, clock, setup, dial>>

PairNext ==
    \/ PairInitRedis
    \/ PairRestart
    \/ \E p \in Procs : PairAccept(p, getTransactions_Get(p))
    \/ \E p \in Procs : PairStep(p, getTransactions_Query(p))
    \/ \E p \in Procs : PairStep(p, getTransactions_SetEx(p))
    \/ \E p \in Procs : PairAccept(p, getAnalytics_Get(p))
    \/ \E p \in Procs : PairStep(p, getAnalytics_Summary(p))
    \/ \E p \in Procs : PairStep(p, getAnalytics_ByCategory(p))
    \/ \E p \in Procs : PairStep(p, getAnalytics_SetEx(p))
    \/ \E p \in Procs : \E raw \in Bodies(today) : PairAccept(p, addTransaction_Insert(p, raw))
    \/ \E p \in Procs : PairStep(p, addTransaction_DelTransactions(p, BOOLEAN))
    \/ \E p \in Procs : PairStep(p, addTransaction_DelAnalytics(p, BOOLEAN))
    \/ \E p \in Procs : \E param \in IdParams : PairAccept(p, deleteTransaction_Exec(p, param))
    \/ \E p \in Procs : PairStep(p, deleteTransaction_DelTransactions(p, BOOLEAN))
    \/ \E p \in Procs : PairStep(p, deleteTransaction_DelAnalytics(p, BOOLEAN))
    \/ \E key \in Keys : Alone(Expire(key))
    \/ \E p \in Procs : PairReturn(p)

SpecPair == Init /\ [][PairNext]_vars

\* the same rows, in whatever order
SameRows(r, s) ==
    /\ Len(r) = Len(s)
    /\ { r[i] : i \in DOMAIN r } = { s[i] : i \in DOMAIN s }

\* the same response body, but for the order of rows that the ORDER BY of the
\* query leaves to the database
SameBody(a, b) ==
    /\ a.kind = b.kind
    /\ CASE a.kind = "transactions" -> SameRows(a.value, b.value)
         [] a.kind = "analytics"    -> /\ a.value.summary = b.value.summary
                                       /\ SameRows(a.value.byCategory, b.value.byCategory)
         [] a.kind = "created"      -> a.value = b.value
         [] OTHER                   -> TRUE

\* the response in slot p of round 2 is the one round 1 gave to the request
SameAsWithoutCache(p) ==
    /\ status[p] = log[cursor].status
    /\ SameBody(body[p], log[cursor].body)

-----------------------------------------------------------------------------
(* Identifiers *)

\* the request in slot p is an addTransaction whose INSERT has succeeded
Created(p) ==
    /\ handler[p] = "addTransaction"
    /\ ops[p] # <<>> /\ ops[p][1] = "store:ok"

\* C11 as stated: the id a successful addTransaction returns is greater than
\* the id returned by every creation that completed before it did.  (A row
\* with a greater id that no request in flight has created is the row of a
\* creation that has completed.)
C11_IdAboveEveryCompletedCreation ==
    \A p \in Procs :
        (Responded(p) /\ Created(p) /\ status[p] = 201) =>
            \A t \in store :
                t.id > body[p].value.id
                    => \E q \in Procs : q # p /\ Created(q) /\ body[q].value.id = t.id

\* C11: the id a successful addTransaction returns is the value the sequence
\* has when its INSERT runs; the sequence never goes back, also not when an
\* INSERT fails or a row is deleted, and every id given out is below it.  So
\* the id differs from that of every transaction ever created, deleted ones
\* included, and is greater than the id of every creation whose INSERT ran
\* earlier, hence of every creation that had completed before this one began.
C11_IdUniqueAndIncreasingByInsert ==
    /\ [](\A t \in store : t.id < nextId)
    /\ [](\A p \in Procs : Created(p) =>
            /\ body[p].value.id < nextId
            /\ \A q \in Procs : (q # p /\ Created(q)) => body[q].value.id # body[p].value.id)
    /\ [][nextId' >= nextId]_vars
    /\ [][\A p \in Procs :
            (pc[p] = "idle" /\ Created(p)')
                => /\ body'[p].value.id = nextId
                   /\ nextId' = nextId + 1
                   /\ store' = store \cup {body'[p].value}
                   /\ \A t \in store : t.id < body'[p].value.id
                   /\ \A q \in Procs : Created(q) => body[q].value.id < body'[p].value.id]_vars

\* an addTransaction answers 201 with id 2 while the deleteTransaction that
\* has removed row 1 is still running
C11_Witness ==
    \E p, q \in Procs :
        /\ Responded(p) /\ Created(p) /\ status[p] = 201 /\ body[p].value.id = 2
        /\ handler[q] = "deleteTransaction" /\ input[q] = <<"1">> /\ changed[q]
        /\ \A t \in store : t.id = 2

-----------------------------------------------------------------------------
(* The analytics queries on a database as the service may find it.

   The tables outlive the process (CREATE TABLE IF NOT EXISTS), so the service
   starts on whatever rows earlier runs have left: any transactions whose
   category exists, and categories that the unique index on (name, type)
   allows next to the seeded ones.  Here the service only reads. *)

\* a category with the name and the colour of "Groceries" and the other type
TwinCategory ==
    [ id |-> 8, name |-> "Groceries", type |-> "income", color |-> "#e74c3c" ]

CategoryTables ==
    { cats \in { SeedCategories, SeedCategories \cup {TwinCategory} } :
        UniqueNameType(cats) }

\* rows a transactions table may hold on day `day`: expenses of "Groceries"
\* dated exactly WindowDays days ago and the day before that, an income and
\* an expense without category, an expense of the twin category, a row of a
\* third type, and an expense of "Rent" as large as the first
StoredRows(day) ==
    { [ id |-> 1, date |-> day - WindowDays,     amount |-> 10000, category_id |-> 1,
        type |-> "expense" ],
      [ id |-> 2, date |-> day - WindowDays - 1, amount |-> 2000,  category_id |-> 1,
        type |-> "expense" ],
      [ id |-> 3, date |-> day,                  amount |-> 5000,  category_id |-> NoCategory,
        type |-> "income" ],
      [ id |-> 4, date |-> day,                  amount |-> 700,   category_id |-> NoCategory,
        type |-> "expense" ],
      [ id |-> 5, date |-> day,                  amount |-> 300,   category_id |-> 8,
        type |-> "expense" ],
      [ id |-> 6, date |-> day,                  amount |-> 40,    category_id |-> NoCategory,
        type |-> "transfer" ],
      [ id |-> 7, date |-> day,                  amount |-> 10000, category_id |-> 2,
        type |-> "expense" ] }

InitQuery ==
    /\ phase = "startup"
    /\ redisClient = "nil"
    /\ today = WindowDays + 1
    /\ categories \in CategoryTables
    /\ store \in { S \in SUBSET StoredRows(today) : \A t \in S : ForeignKeyOk(t, categories) }
    /\ nextId = Cardinality(StoredRows(today)) + 1
    /\ cache = [k \in Keys |-> Absent]
    /\ handler = [p \in Procs |-> "none"]
    /\ pc = [p \in Procs |-> "idle"]
    /\ body = [p \in Procs |-> NoBody]
    /\ status = [p \in Procs |-> 0]
    /\ ops = [p \in Procs |-> <<>>]
    /\ omits = [p \in Procs |-> {}]
    /\ overtaken = [p \in Procs |-> FALSE]
    /\ stale = [p \in Procs |-> FALSE]
    /\ changed = [p \in Procs |-> FALSE]
    /\ input = [p \in Procs |-> <<>>]
    /\ accepted = 0
    /\ round = 1
    /\ log = <<>>
    /\ cursor = 1
    /\ lost = FALSE
    /\ age = [k \in Keys |-> 0]
    /\ NoSetup
    /\ Connected

\* the requests come one after the other
QueryProcs == {1}

NextQuery ==
    \/ Alone(InitRedis)
    \/ \E p \in QueryProcs : Alone(getAnalytics_Get(p))
    \/ \E p \in QueryProcs : Alone(getAnalytics_Summary(p))
    \/ \E p \in QueryProcs : Alone(getAnalytics_ByCategory(p))
    \/ \E p \in QueryProcs : Alone(getAnalytics_SetEx(p))
    \/ Alone(Expire("analytics"))
    \/ \E p \in QueryProcs : Alone(Return(p))

SpecQuery == InitQuery /\ [][NextQuery]_vars

-----------------------------------------------------------------------------
(* Properties of the analytics queries *)

\* the amount that the row with id n, if there is one, adds to the total of
\* type ty on day `day`
Share(txs, day, ty, n) ==
    LET hit == { t \in txs : t.id = n /\ t.type = ty /\ t.date >= day - 30 }
    IN  IF hit = {} THEN 0 ELSE (CHOOSE t \in hit : TRUE).amount

\* the total of type ty over the rows with ids 1..n
RECURSIVE ReferenceTotal(_, _, _, _)
ReferenceTotal(txs, day, ty, n) ==
    IF n = 0 THEN 0
    ELSE Share(txs, day, ty, n) + ReferenceTotal(txs, day, ty, n - 1)

\* the reference aggregation: the totals of income and of expense and the
\* number of all rows dated within the last 30 days
ReferenceSummary(txs, day, n) ==
    [ total_income      |-> ReferenceTotal(txs, day, "income", n),
      total_expenses    |-> ReferenceTotal(txs, day, "expense", n),
      transaction_count |-> Cardinality({ t.id : t \in { u \in txs : u.date >= day - 30 } }) ]

\* the request in slot p has read its summary from the store
ReadSummary(p) ==
    /\ handler[p] = "getAnalytics"
    /\ "store:ok" \in Events(p)

\* the summary that the request in slot p holds
SummaryOf(p) == IF pc[p] = "bycat" THEN body[p].value ELSE body[p].value.summary

\* C12: the summary getAnalytics computes from the store is the reference
\* aggregation over the rows dated today - 30 days or later: the sum of the
\* income amounts, the sum of the expense amounts and the number of all rows,
\* whatever their type; all three are 0 when the window holds no row.
C12_SummaryIsReferenceAggregation ==
    \A p \in Procs :
        (ReadSummary(p) /\ body[p].kind \in {"summary", "analytics"}) =>
            /\ SummaryOf(p) = ReferenceSummary(store, today, nextId - 1)
            /\ (\A t \in store : t.date < today - 30)
                   => SummaryOf(p) = [ total_income |-> 0, total_expenses |-> 0,
                                       transaction_count |-> 0 ]

\* getAnalytics answers from a store with rows of all three types in the
\* window and one row outside of it
C12_Witness ==
    \E p \in Procs :
        /\ ReadSummary(p) /\ Responded(p) /\ status[p] = 200
        /\ Cardinality(store) = 5
        /\ { t.id : t \in store } = {1, 2, 3, 4, 6}
        /\ body[p].value.summary = [ total_income |-> 5000, total_expenses |-> 10700,
                                     transaction_count |-> 4 ]

\* row t is a categorised expense
CategorisedExpense(t) ==
    t.type = "expense" /\ \E c \in categories : c.id = t.category_id

\* the summary, or the breakdown, changes when row t is taken away
InSummary(t) == SummaryQuery(store, today) # SummaryQuery(store \ {t}, today)
InBreakdown(t) ==
    CategoryGroups(store, categories, today) # CategoryGroups(store \ {t}, categories, today)

\* C13: both analytics queries use the one rule date >= today - 30 days: a
\* row counts for the summary, and a categorised expense for the breakdown,
\* exactly when its date is today - 30 days or later; a row dated 31 days ago
\* counts for neither, one dated 30 days ago for both.  These are the queries
\* whose results getAnalytics answers with.
C13_OneWindowRule ==
    /\ \A t \in store :
         /\ InSummary(t) <=> t.date >= today - 30
         /\ CategorisedExpense(t) => (InBreakdown(t) <=> t.date >= today - 30)
         /\ ~CategorisedExpense(t) => ~InBreakdown(t)
         /\ t.date = today - 31 => (~InSummary(t) /\ ~InBreakdown(t))
         /\ (t.date = today - 30 /\ CategorisedExpense(t)) => (InSummary(t) /\ InBreakdown(t))
    /\ \A p \in Procs :
         (ReadSummary(p) /\ Responded(p) /\ status[p] = 200
            /\ "store:truncated" \notin Events(p)) => AnswersFromStore(p)

\* getAnalytics answers from a store that holds an expense of "Groceries"
\* dated 30 days ago and one dated 31 days ago: the first alone is counted,
\* in the summary and in the breakdown
C13_Witness ==
    \E p \in Procs :
        /\ ReadSummary(p) /\ Responded(p) /\ status[p] = 200
        /\ { t.id : t \in store } = {1, 2}
        /\ \E t \in store : t.date = today - 30
        /\ \E t \in store : t.date = today - 31
        /\ body[p].value.summary.transaction_count = 1
        /\ body[p].value.summary.total_expenses = 10000
        /\ body[p].value.byCategory = << [ name |-> "Groceries", color |-> "#e74c3c",
                                           total |-> 10000 ] >>

\* the amount of the row of S with id n, 0 if there is none
AmountOf(S, n) ==
    IF \E t \in S : t.id = n THEN (CHOOSE t \in S : t.id = n).amount ELSE 0

\* the amounts of the rows of S with ids 1..n, added up
RECURSIVE TotalUpTo(_, _)
TotalUpTo(S, n) == IF n = 0 THEN 0 ELSE AmountOf(S, n) + TotalUpTo(S, n - 1)

\* the expenses of the last 30 days whose category has name nm and colour col
ExpensesOf(txs, cats, day, nm, col) ==
    { t \in txs : /\ t.type = "expense"
                  /\ t.date >= day - 30
                  /\ \E c \in cats : c.id = t.category_id /\ c.name = nm /\ c.color = col }

\* the expenses of the last 30 days that have no category
UncategorisedExpenses(txs, cats, day) ==
    { t \in txs : /\ t.type = "expense"
                  /\ t.date >= day - 30
                  /\ ~ \E c \in cats : c.id = t.category_id }

\* the reference breakdown: a row for every (name, colour) of a category
\* that has such expenses, with their sum
ReferenceBreakdown(txs, cats, day, n) ==
    { [ name |-> c.name, color |-> c.color,
        total |-> TotalUpTo(ExpensesOf(txs, cats, day, c.name, c.color), n) ]
      : c \in { e \in cats : ExpensesOf(txs, cats, day, e.name, e.color) # {} } }

\* the request in slot p answers with analytics read in full from the store
ReadAnalytics(p) ==
    /\ ReadSummary(p) /\ Responded(p) /\ status[p] = 200
    /\ "store:truncated" \notin Events(p)

\* C14: the breakdown getAnalytics computes from the store has a row for
\* every (name, colour) group of categorised expenses in the window and no
\* other row; a row's total is the sum of the amounts of its group; the rows
\* come in non-increasing order of total; an expense without category is in
\* no row, yet it is in the summary's total_expenses and transaction_count.
C14_BreakdownIsReferenceGrouping ==
    \A p \in Procs :
        ReadAnalytics(p) =>
            LET rows == body[p].value.byCategory
                sum  == body[p].value.summary
                unc  == UncategorisedExpenses(store, categories, today)
            IN  /\ { rows[i] : i \in DOMAIN rows }
                     = ReferenceBreakdown(store, categories, today, nextId - 1)
                /\ Len(rows) = Cardinality(ReferenceBreakdown(store, categories, today, nextId - 1))
                /\ \A i, j \in DOMAIN rows : i < j => rows[i].total >= rows[j].total
                /\ SumAmounts({ [ id |-> i, amount |-> rows[i].total ] : i \in DOMAIN rows })
                     + TotalUpTo(unc, nextId - 1) = sum.total_expenses
                /\ \A t \in unc : InSummary(t) /\ ~InBreakdown(t)

\* getAnalytics answers from a store that holds, in the window, an expense of
\* "Groceries", one of "Rent" and one without category, and the twin
\* category's expense: two rows, the greater total first, and all four
\* expenses in the summary
C14_Witness ==
    \E p \in Procs :
        /\ ReadAnalytics(p)
        /\ { t.id : t \in store } = {1, 4, 5, 7}
        /\ Len(body[p].value.byCategory) = 2
        /\ body[p].value.byCategory[1].total = 10300
        /\ body[p].value.byCategory[2].total = 10000
        /\ body[p].value.summary.total_expenses = 21000
        /\ body[p].value.summary.transaction_count = 4

\* the ids of the categories that have an expense in the window
ActiveCategories(txs, cats, day) ==
    { c.id : c \in { e \in cats : \E t \in txs : /\ t.category_id = e.id
                                                 /\ t.type = "expense"
                                                 /\ t.date >= day - 30 } }

-----------------------------------------------------------------------------
(* Properties of the cache *)

\* the key each read handler uses
KeyOf(h) == IF h = "getTransactions" THEN "transactions" ELSE "analytics"

\* the first rows of one of the result sets
Prefixes(results) ==
    UNION { { SubSeq(rs, 1, k) : k \in 0..Len(rs) } : rs \in results }

\* key k holds a payload after the step that it did not hold before
NewPayload(k) ==
    /\ cache'[k].present
    /\ cache[k].present => cache'[k].val # cache[k].val

\* C16: every payload in the cache is one that a getTransactions or a
\* getAnalytics request has stored after reading it from the store: a step
\* puts a payload under a key only as the SetEx of the read handler of that
\* key, and the payload is the serialised result that the request has read
\* from the store; the steps of addTransaction and deleteTransaction leave a
\* key as it is or without an entry.
C16_CacheMirrorsStoreReads ==
    /\ [][\A k \in Keys :
            NewPayload(k) =>
                \E p \in Procs :
                    /\ handler[p] \in Reads /\ KeyOf(handler[p]) = k
                    /\ pc[p] = "setex" /\ pc'[p] = "done"
                    /\ Events(p) \cap {"store:ok", "store:truncated"} # {}
                    /\ cache'[k].val = Marshal(k, body[p].value)]_vars
    /\ [][\A p \in Procs :
            /\ (pc[p] = "query" /\ pc'[p] = "setex")
                   => body'[p].value \in Prefixes(ListQuery(store, categories))
            /\ (pc[p] = "summary" /\ pc'[p] = "bycat")
                   => body'[p].value = SummaryQuery(store, today)
            /\ (pc[p] = "bycat" /\ pc'[p] = "setex")
                   => /\ body'[p].value.summary = body[p].value
                      /\ body'[p].value.byCategory
                             \in Prefixes(CategoryQuery(store, categories, today))]_vars
    /\ [][\A p \in Procs :
            (handler'[p] \in Writes /\ (pc'[p] # pc[p] \/ handler'[p] # handler[p]))
                => \A k \in Keys :
                       \/ ~cache'[k].present
                       \/ cache[k].present /\ cache'[k].val = cache[k].val
                                           /\ cache'[k].ttl = cache[k].ttl]_vars
    /\ [](\A p \in Procs :
            handler[p] \in Writes => Events(p) \cap {"setex:ok", "setex:err"} = {})

\* a getTransactions has stored the listing of one row that it read from the
\* store and returned
C16_Witness ==
    \E p \in Procs :
        /\ Responded(p) /\ handler[p] = "getTransactions"
        /\ ops[p] = <<"get:miss", "store:ok", "setex:ok">>
        /\ Len(body[p].value) = 1
        /\ cache["transactions"].present
        /\ cache["transactions"].val = Marshal("transactions", body[p].value)

-----------------------------------------------------------------------------
(* The service with a clock.

   Redis counts the age of an entry from the SetEx that wrote it, drops the
   entry when its age reaches the TTL given to SetEx, and leaves the age alone
   on Get.  Time passes in steps of the shorter TTL.  The requests come one
   after the other. *)

\* the step stores a payload under key k
Written(k) ==
    \E p \in Procs :
        /\ pc[p] = "setex" /\ pc'[p] = "done"
        /\ KeyOf(handler[p]) = k
        /\ ops'[p][Len(ops'[p])] = "setex:ok"

\* step A of the service, with the ages it leaves
Timed(A) ==
    /\ A
    /\ age' = [k \in Keys |-> IF cache'[k].present /\ ~Written(k) THEN age[k] ELSE 0]
    /\ UNCHANGED <<pair, setup, dial>>

\* time passes and no entry is ever dropped
Tick_NoExpiry ==
    /\ phase = "serving"
    /\ \E k \in Keys : cache[k].present
    /\ age' = [k \in Keys |-> IF cache[k].present
                               THEN Min(age[k] + TransactionsTTL, cache[k].ttl)
                               ELSE 0]
    /\ UNCHANGED <<boot, db, cache, slot, ghost, run, pair, setup, dial>>

\* time passes; the entries that reach their TTL are gone
Tick ==
    /\ phase = "serving"
    /\ \E k \in Keys : cache[k].present
    /\ cache' = [k \in Keys |->
                    IF cache[k].present /\ age[k] + TransactionsTTL < cache[k].ttl
                    THEN cache[k] ELSE Absent]
    /\ age' = [k \in Keys |-> IF cache'[k].present THEN age[k] + TransactionsTTL ELSE 0]
    /\ UNCHANGED <<boot, db, slot, ghost, run, pair, setup, dial>>

NextTTL ==
    \/ Timed(InitRedis)
    \/ \E p \in QueryProcs : Timed(getTransactions_Get(p))
    \/ \E p \in QueryProcs : Timed(getTransactions_Query(p))
    \/ \E p \in QueryProcs : Timed(getTransactions_SetEx(p))
    \/ \E p \in QueryProcs : Timed(getAnalytics_Get(p))
    \/ \E p \in QueryProcs : Timed(getAnalytics_Summary(p))
    \/ \E p \in QueryProcs : Timed(getAnalytics_ByCategory(p))
    \/ \E p \in QueryProcs : Timed(getAnalytics_SetEx(p))
    \/ \E p \in QueryProcs : \E raw \in Bodies(today) : Timed(addTransaction_Insert(p, raw))
    \/ \E p \in QueryProcs : Timed(addTransaction_DelTransactions(p, BOOLEAN))
    \/ \E p \in QueryProcs : Timed(addTransaction_DelAnalytics(p, BOOLEAN))
    \/ \E p \in QueryProcs : Timed(Return(p))
    \/ Tick

SpecTTL == Init /\ [][NextTTL]_vars

\* C18: getTransactions stores its payload with a TTL of 60 and getAnalytics
\* with a TTL of 300; an entry is served only while its age is below its TTL,
\* and being served does not change the entry or its age; a read that finds
\* the entry gone goes to the store.
C18_EntriesServedWithinTTL ==
    /\ [](\A k \in Keys :
            cache[k].present =>
                /\ cache[k].ttl = IF k = "transactions" THEN 60 ELSE 300
                /\ age[k] < cache[k].ttl)
    /\ [][\A p \in Procs :
            (pc[p] = "idle" /\ handler'[p] \in Reads) =>
                /\ ops'[p] = <<"get:hit">> =>
                       /\ cache[KeyOf(handler'[p])].present
                       /\ age[KeyOf(handler'[p])]
                              < (IF handler'[p] = "getTransactions" THEN 60 ELSE 300)
                       /\ cache' = cache /\ age' = age
                /\ ~cache[KeyOf(handler'[p])].present
                       => (ops'[p] # <<"get:hit">> /\ pc'[p] \in {"query", "summary"})]_vars
    /\ [][\A k \in Keys : (cache[k].present /\ cache'[k].present /\ ~Written(k))
                              => (cache'[k].ttl = cache[k].ttl /\ age'[k] >= age[k])]_vars

\* a getAnalytics is served the entry at age 240, while the listing stored
\* after it has expired
C18_Witness ==
    \E p \in Procs :
        /\ Responded(p) /\ handler[p] = "getAnalytics" /\ ops[p] = <<"get:hit">>
        /\ age["analytics"] = 240
        /\ ~cache["transactions"].present
        /\ accepted = 3

\* C19: a read that finds a payload it can deserialise answers 200 with that
\* payload in the same step: the store is not queried, the entry is not
\* rewritten, and the payload is served whether or not the store has changed
\* since it was written.
C19_HitReturnsPayloadImmediately ==
    /\ [](\A p \in Procs :
            (handler[p] \in Reads /\ Len(ops[p]) > 0 /\ ops[p][1] = "get:hit") =>
                /\ ops[p] = <<"get:hit">>
                /\ pc[p] = "done"
                /\ status[p] = 200)
    /\ [][\A p \in Procs :
            (pc[p] = "idle" /\ ops'[p] = <<"get:hit">>) =>
                LET k == KeyOf(handler'[p])
                IN  /\ cache[k].present
                    /\ body'[p] = [kind |-> k, value |-> cache[k].val.value]
                    /\ stale'[p] = cache[k].stale
                    /\ UNCHANGED <<db, cache>>]_vars

\* a getAnalytics answers from the cache with a payload that the store no
\* longer matches
C19_Witness ==
    \E p \in Procs :
        /\ Responded(p) /\ handler[p] = "getAnalytics" /\ ops[p] = <<"get:hit">>
        /\ status[p] = 200 /\ stale[p]

-----------------------------------------------------------------------------
(* Properties of a process whose initRedis failed *)

\* what a handler records of its statements on the store
StoreEvents == {"store:ok", "store:err", "store:truncated"}

\* what a handler records of its commands to the cache
CacheEvents ==
    {"get:hit", "get:miss", "get:badpayload", "setex:ok", "setex:err",
     "del:transactions:ok", "del:transactions:err",
     "del:analytics:ok", "del:analytics:err"}

\* C20: once initRedis has failed the client is nil and stays nil while the
\* process serves: every read that answers has queried the store, no request
\* issues a cache command, nothing is stored in the cache, and the client is
\* never set again.
C20_NoCacheAfterFailedInit ==
    /\ []((phase = "serving" /\ redisClient = "nil") =>
            /\ \A k \in Keys : ~cache[k].present
            /\ \A p \in Procs :
                 /\ Events(p) \cap CacheEvents = {}
                 /\ (Responded(p) /\ handler[p] \in Reads) =>
                        /\ ops[p] # <<>>
                        /\ Events(p) \subseteq StoreEvents
                        /\ status[p] = 200 <=> "store:err" \notin Events(p))
    /\ [][phase = "serving" => (phase' = "serving" /\ redisClient' = redisClient)]_vars

\* without a client, a creation has succeeded and a getAnalytics after it has
\* answered from the store
C20_Witness ==
    /\ phase = "serving" /\ redisClient = "nil"
    /\ \E r \in Procs :
         /\ Responded(r) /\ handler[r] = "getAnalytics" /\ status[r] = 200
         /\ ops[r] = <<"store:ok", "store:ok">>
         /\ AnswersFromStore(r)
    /\ store # {}

-----------------------------------------------------------------------------
(* The service while only mutations arrive.

   Earlier reads of the empty table have left both keys in the cache; from
   then on addTransaction and deleteTransaction requests run, side by side,
   and no read does. *)

\* what the two read handlers store for an empty table
PopulatedCache ==
    [k \in Keys |->
        Entry(Marshal(k, IF k = "transactions"
                         THEN <<>>
                         ELSE [ summary |-> SummaryQuery({}, WindowDays + 1),
                                byCategory |-> <<>> ]),
              TTLOf(k), {}, FALSE)]

InitInval ==
    /\ phase = "serving"
    /\ redisClient = "client"
    /\ today = WindowDays + 1
    /\ categories = SeedCategories
    /\ store = {}
    /\ nextId = 1
    /\ cache = PopulatedCache
    /\ handler = [p \in Procs |-> "none"]
    /\ pc = [p \in Procs |-> "idle"]
    /\ body = [p \in Procs |-> NoBody]
    /\ status = [p \in Procs |-> 0]
    /\ ops = [p \in Procs |-> <<>>]
    /\ omits = [p \in Procs |-> {}]
    /\ overtaken = [p \in Procs |-> FALSE]
    /\ stale = [p \in Procs |-> FALSE]
    /\ changed = [p \in Procs |-> FALSE]
    /\ input = [p \in Procs |-> <<>>]
    /\ accepted = 0
    /\ round = 1
    /\ log = <<>>
    /\ cursor = 1
    /\ lost = FALSE
    /\ age = [k \in Keys |-> 0]
    /\ NoSetup
    /\ Connected

NextInval ==
    \/ \E p \in Procs : \E raw \in Bodies(today) : Alone(addTransaction_Insert(p, raw))
    \/ \E p \in Procs : Alone(addTransaction_DelTransactions(p, BOOLEAN))
    \/ \E p \in Procs : Alone(addTransaction_DelAnalytics(p, BOOLEAN))
    \/ \E p \in Procs : \E param \in IdParams : Alone(deleteTransaction_Exec(p, param))
    \/ \E p \in Procs : Alone(deleteTransaction_DelTransactions(p, BOOLEAN))
    \/ \E p \in Procs : Alone(deleteTransaction_DelAnalytics(p, BOOLEAN))
    \/ \E p \in Procs : Alone(Return(p))

SpecInval == InitInval /\ [][NextInval]_vars

\* slot p has just issued a Del of key that reached Redis
Deleted(p, key) ==
    /\ Len(ops'[p]) = Len(ops[p]) + 1
    /\ ops'[p][Len(ops'[p])] = IF key = "transactions"
                               THEN "del:transactions:ok" ELSE "del:analytics:ok"

-----------------------------------------------------------------------------
(* The two queries of getAnalytics *)

\* every row that table transactions can hold in a run
RowsOfRun ==
    { InsertedRow(b, i) :
        b \in { r \in Bodies(today) : r.json = "object" /\ ForeignKeyOk(r, categories) },
        i \in 1..MaxReq }

\* the analytics a is what summaryQuery and categoryQuery give on one table
Snapshot(a) ==
    \E S \in SUBSET RowsOfRun :
        /\ a.summary = SummaryQuery(S, today)
        /\ a.byCategory \in CategoryQuery(S, categories, today)

\* C22: the analytics that getAnalytics has read whole from the store, to
\* store it in the cache and to return it, is the summary and the breakdown
\* of one state of the table.
C22_AnalyticsIsOneSnapshot ==
    \A p \in Procs :
        (/\ handler[p] = "getAnalytics"
         /\ pc[p] \in {"setex", "done"}
         /\ body[p].kind = "analytics"
         /\ ops[p][1] # "get:hit"
         /\ "store:truncated" \notin Events(p))
            => Snapshot(body[p].value)

-----------------------------------------------------------------------------
(* The service with a clock, once the mutations have stopped.

   Reads arrive, as many as there may be, and addTransaction requests until
   one of them has used the first value of the sequence; from then on only
   reads arrive.  A handler that has begun a request goes on to its response,
   and time passes. *)

\* the bodies of the creations: an expense of a category, in the window
LiveBodies == { b \in Bodies(today) : b.json = "object" /\ b.category_id = 1 }

\* the mutations have not stopped yet
MutationBudget == nextId = 1

\* one more request may come: the requests are not counted beyond MaxReq
MoreReads ==
    /\ accepted = MaxReq
    /\ accepted' = MaxReq - 1
    /\ UNCHANGED <<boot, db, cache, slot, ghost, pair, clock, setup, dial>>

\* the steps by which the handler in slot p goes on with its request
Proceed(p) ==
    \/ Timed(getTransactions_Query(p))
    \/ Timed(getTransactions_SetEx(p))
    \/ Timed(getAnalytics_Summary(p))
    \/ Timed(getAnalytics_ByCategory(p))
    \/ Timed(getAnalytics_SetEx(p))
    \/ Timed(addTransaction_DelTransactions(p, BOOLEAN))
    \/ Timed(addTransaction_DelAnalytics(p, BOOLEAN))
    \/ Timed(Return(p))

NextLive ==
    \/ Timed(InitRedis)
    \/ \E p \in Procs : Timed(getTransactions_Get(p))
    \/ \E p \in Procs : Timed(getAnalytics_Get(p))
    \/ \E p \in Procs : \E raw \in LiveBodies :
         MutationBudget /\ Timed(addTransaction_Insert(p, raw))
    \/ \E p \in Procs : Proceed(p)
    \/ MoreReads
    \/ Tick

SpecLive ==
    /\ Init
    /\ [][NextLive]_vars
    /\ \A p \in Procs : WF_vars(Proceed(p))
    /\ WF_vars(Tick)

\* a statement on the store fails, or the loop over its rows is cut short
StoreFails ==
    \E p \in Procs :
        /\ Len(ops'[p]) = Len(ops[p]) + 1
        /\ ops'[p][Len(ops'[p])] \in {"store:err", "store:truncated"}

\* every read that answers, answers 200 with what the queries give on the
\* table as it is
ReadsAreCurrent ==
    \A p \in Procs :
        (Responded(p) /\ handler[p] \in Reads) => (status[p] = 200 /\ AnswersFromStore(p))

-----------------------------------------------------------------------------
(* seedDemoData, run by "--seed-demo".

   Each invocation is a process of its own with its own connection; several
   may run against the same database at once.  SELECT COUNT runs on the pool,
   outside the transaction that holds the two INSERTs; the rows of an open
   transaction are seen by the others once it commits. *)

\* (SELECT id FROM categories WHERE name = n AND type = ty LIMIT 1)
CategoryIdOf(cats, n, ty) ==
    LET m == { c \in cats : c.name = n /\ c.type = ty }
    IN  IF m = {} THEN NoCategory ELSE (CHOOSE c \in m : TRUE).id

\* the VALUES of demoTx: days before CURRENT_DATE, amount, category, type
DemoValues ==
    << <<28, 320000, "Salary",         "income">>,
       <<25,  85000, "Freelance",      "income">>,
       <<24, 150000, "Rent",           "expense">>,
       <<22,  12045, "Utilities",      "expense">>,
       <<20,   9672, "Groceries",      "expense">>,
       <<19,   4500, "Transportation", "expense">>,
       <<16,   2850, "Entertainment",  "expense">>,
       <<14,   6411, "Groceries",      "expense">>,
       <<13,  60000, "Freelance",      "income">>,
       <<11,   6000, "Utilities",      "expense">>,
       << 8,  14000, "Entertainment",  "expense">>,
       << 6,  13239, "Groceries",      "expense">>,
       << 4,   2230, "Transportation", "expense">>,
       << 1,   5480, "Entertainment",  "expense">> >>

\* the rows demoTx inserts when the sequence stands at first
DemoTransactions(cats, day, first) ==
    { [ id          |-> first + i - 1,
        date        |-> day - DemoValues[i][1],
        amount      |-> DemoValues[i][2],
        category_id |-> CategoryIdOf(cats, DemoValues[i][3], DemoValues[i][4]),
        type        |-> DemoValues[i][4] ] : i \in DOMAIN DemoValues }

\* the VALUES of demoBudgets: category, amount
BudgetValues ==
    << <<"Groceries", 40000>>, <<"Entertainment", 20000>>, <<"Transportation", 15000>> >>

\* the rows demoBudgets inserts when the sequence stands at first
DemoBudgets(cats, day, first) ==
    { [ id          |-> first + i - 1,
        category_id |-> CategoryIdOf(cats, BudgetValues[i][1], "expense"),
        amount      |-> BudgetValues[i][2],
        period      |-> "monthly",
        start_date  |-> [ trunc |-> "month", of |-> day ] ] : i \in DOMAIN BudgetValues }

\* "--seed-demo" is run once more
seedDemoData_Start(s) ==
    /\ seedPc[s] = "idle"
    /\ seedRuns < MaxReq
    /\ seedPc' = [seedPc EXCEPT ![s] = "count"]
    /\ seedRuns' = seedRuns + 1
    /\ UNCHANGED <<db, budgets, budgetSeq, seedTx, catIndex, catSeq>>

\* SELECT COUNT(*) FROM transactions, and the return when it fails or finds rows
seedDemoData_Count(s) ==
    /\ seedPc[s] = "count"
    /\ \E dbOk \in BOOLEAN :
         seedPc' = [seedPc EXCEPT ![s] = IF dbOk /\ Cardinality(store) = 0
                                         THEN "insert" ELSE "idle"]
    /\ UNCHANGED <<db, budgets, budgetSeq, seedTx, seedRuns, catIndex, catSeq>>

\* db.Begin() and tx.Exec(demoTx)
seedDemoData_InsertTransactions(s) ==
    /\ seedPc[s] = "insert"
    /\ \E dbOk \in BOOLEAN :
         IF dbOk
         THEN /\ seedTx' = [seedTx EXCEPT ![s].txs = DemoTransactions(categories, today, nextId)]
              /\ nextId' = nextId + Len(DemoValues)
              /\ seedPc' = [seedPc EXCEPT ![s] = "budgets"]
         ELSE /\ seedPc' = [seedPc EXCEPT ![s] = "idle"]
              /\ UNCHANGED <<seedTx, nextId>>
    /\ UNCHANGED <<today, categories, store, budgets, budgetSeq, seedRuns, catIndex, catSeq>>

\* tx.Exec(demoBudgets); on an error the deferred Rollback drops the rows
seedDemoData_InsertBudgets(s) ==
    /\ seedPc[s] = "budgets"
    /\ \E dbOk \in BOOLEAN :
         IF dbOk
         THEN /\ seedTx' = [seedTx EXCEPT ![s].buds = DemoBudgets(categories, today, budgetSeq)]
              /\ budgetSeq' = budgetSeq + Len(BudgetValues)
              /\ seedPc' = [seedPc EXCEPT ![s] = "commit"]
         ELSE /\ seedTx' = [seedTx EXCEPT ![s] = NoRows]
              /\ seedPc' = [seedPc EXCEPT ![s] = "idle"]
              /\ UNCHANGED budgetSeq
    /\ UNCHANGED <<db, budgets, seedRuns, catIndex, catSeq>>

\* tx.Commit()
seedDemoData_Commit(s) ==
    /\ seedPc[s] = "commit"
    /\ \E dbOk \in BOOLEAN :
         IF dbOk
         THEN /\ store' = store \cup seedTx[s].txs
              /\ budgets' = budgets \cup seedTx[s].buds
         ELSE UNCHANGED <<store, budgets>>
    /\ seedTx' = [seedTx EXCEPT ![s] = NoRows]
    /\ seedPc' = [seedPc EXCEPT ![s] = "idle"]
    /\ UNCHANGED <<today, categories, nextId, budgetSeq, seedRuns, catIndex, catSeq>>

\* a step of seedDemoData by itself
Seeding(A) == A /\ UNCHANGED <<boot, cache, slot, ghost, run, pair, clock, dial>>

NextSeed ==
    \/ \E s \in Procs : Seeding(seedDemoData_Start(s))
    \/ \E s \in Procs : Seeding(seedDemoData_Count(s))
    \/ \E s \in Procs : Seeding(seedDemoData_InsertTransactions(s))
    \/ \E s \in Procs : Seeding(seedDemoData_InsertBudgets(s))
    \/ \E s \in Procs : Seeding(seedDemoData_Commit(s))

SpecSeed == Init /\ [][NextSeed]_vars

\* rows a and b of a table differ in their id alone
Twice(a, b) == a.id # b.id /\ [a EXCEPT !.id = b.id] = b

\* C24: whatever invocations of seedDemoData have run, one after the other
\* or at once, no demo transaction and no demo budget is in its table twice.
C24_DemoDataInsertedAtMostOnce ==
    /\ \A a, b \in store : ~Twice(a, b)
    /\ \A a, b \in budgets : ~Twice(a, b)

-----------------------------------------------------------------------------
(* ensureSchema and seedDefaultCategories.

   Each is one db.Exec of a string of statements, which the server runs as
   one transaction.  They run on a database that is new or that an earlier
   version has left, with or without the unique index, and whenever a
   process starts or migrates. *)

\* the VALUES of seedSQL
SeedValues ==
    << <<"Groceries",      "expense", "#e74c3c">>,
       <<"Rent",           "expense", "#e67e22">>,
       <<"Utilities",      "expense", "#f39c12">>,
       <<"Transportation", "expense", "#3498db">>,
       <<"Entertainment",  "expense", "#9b59b6">>,
       <<"Salary",         "income",  "#27ae60">>,
       <<"Freelance",      "income",  "#16a085">> >>

\* row i of seedSQL with the next value of the sequence, which the INSERT
\* takes for every row of VALUES, inserted or not
SeedRow(i, seq) ==
    [ id |-> seq + i - 1, name |-> SeedValues[i][1], type |-> SeedValues[i][2],
      color |-> SeedValues[i][3] ]

\* an INSERT without its ON CONFLICT clause, on a table without the index
SeedInsert_NoConflictClause(cats, seq) ==
    cats \cup { SeedRow(i, seq) : i \in DOMAIN SeedValues }

\* INSERT INTO categories ... ON CONFLICT (name, type) DO NOTHING
SeedInsert(cats, seq) ==
    cats \cup { SeedRow(i, seq) :
                  i \in { j \in DOMAIN SeedValues :
                            ~\E c \in cats : /\ c.name = SeedValues[j][1]
                                             /\ c.type = SeedValues[j][2] } }

\* what the DO block of schemaSQL leaves: of the rows of one (name, type),
\* the one of the lowest id
Deduplicated(cats) ==
    { c \in cats : \A e \in cats : (e.name = c.name /\ e.type = c.type) => c.id <= e.id }

\* the categories that rows of transactions and budgets refer to
Referenced(txs, buds) == { t.category_id : t \in txs } \cup { b.category_id : b \in buds }

\* rows an earlier version may have left next to the seeded ones, or without
\* them: the twin, a second "Groceries" expense, and a second "Rent" expense
\* of another colour
LegacyExtras ==
    { TwinCategory,
      [ id |-> 9,  name |-> "Groceries", type |-> "expense", color |-> "#e74c3c" ],
      [ id |-> 10, name |-> "Rent",      type |-> "expense", color |-> "#000000" ] }

LegacyTables == { S \cup D : S \in { {}, SeedCategories }, D \in SUBSET LegacyExtras }

\* the sequence of categories.id is not followed further
CatSeqCap == MaxId(SeedCategories \cup LegacyExtras) + 1 + MaxReq * Len(SeedValues)

InitSchema ==
    /\ phase = "startup"
    /\ redisClient = "nil"
    /\ today = WindowDays + 1
    /\ categories \in LegacyTables
    /\ store \in { {} } \cup
                 { { [ id |-> 1, date |-> today, amount |-> 100,
                       category_id |-> c.id, type |-> c.type ] } : c \in categories }
    /\ nextId = MaxId(store) + 1
    /\ cache = [k \in Keys |-> Absent]
    /\ handler = [p \in Procs |-> "none"]
    /\ pc = [p \in Procs |-> "idle"]
    /\ body = [p \in Procs |-> NoBody]
    /\ status = [p \in Procs |-> 0]
    /\ ops = [p \in Procs |-> <<>>]
    /\ omits = [p \in Procs |-> {}]
    /\ overtaken = [p \in Procs |-> FALSE]
    /\ stale = [p \in Procs |-> FALSE]
    /\ changed = [p \in Procs |-> FALSE]
    /\ input = [p \in Procs |-> <<>>]
    /\ accepted = 0
    /\ round = 1
    /\ log = <<>>
    /\ cursor = 1
    /\ lost = FALSE
    /\ age = [k \in Keys |-> 0]
    /\ budgets = {}
    /\ budgetSeq = 1
    /\ seedPc = [s \in Procs |-> "idle"]
    /\ seedTx = [s \in Procs |-> NoRows]
    /\ seedRuns = 0
    /\ catIndex \in { FALSE, UniqueNameType(categories) }
    /\ catSeq = MaxId(categories) + 1
    /\ Connected

\* db.Exec(schemaSQL) succeeds: the DELETE of the DO block fails when a row it
\* would delete is referred to
SchemaOk(dbOk) ==
    /\ dbOk
    /\ (categories \ Deduplicated(categories)) \cap
           { c \in categories : c.id \in Referenced(store, budgets) } = {}

\* what db.Exec(schemaSQL) does to the tables
SchemaExec(dbOk) ==
    IF SchemaOk(dbOk)
    THEN /\ categories' = Deduplicated(categories)
         /\ catIndex' = TRUE
    ELSE UNCHANGED <<categories, catIndex>>

\* db.Exec(seedSQL) succeeds: without the index ON CONFLICT (name, type) is
\* an error
SeedOk(dbOk) == dbOk /\ catIndex

\* what db.Exec(seedSQL) does to the tables
SeedExec(dbOk) ==
    IF SeedOk(dbOk)
    THEN /\ categories' = SeedInsert(categories, catSeq)
         /\ catSeq' = catSeq + Len(SeedValues)
    ELSE UNCHANGED <<categories, catSeq>>

ensureSchema ==
    /\ \E dbOk \in BOOLEAN : SchemaExec(dbOk)
    /\ UNCHANGED <<boot, today, store, nextId, cache, slot, ghost, run, pair, clock,
                   budgets, budgetSeq, seedPc, seedTx, seedRuns, catSeq, dial>>

seedDefaultCategories ==
    /\ catSeq + Len(SeedValues) <= CatSeqCap
    /\ \E dbOk \in BOOLEAN : SeedExec(dbOk)
    /\ UNCHANGED <<boot, today, store, nextId, cache, slot, ghost, run, pair, clock,
                   budgets, budgetSeq, seedPc, seedTx, seedRuns, catIndex, dial>>

NextSchema == ensureSchema \/ seedDefaultCategories

SpecSchema == InitSchema /\ [][NextSchema]_vars

\* every (name, type) of seedSQL has a row
AllSeeded(cats) ==
    \A i \in DOMAIN SeedValues :
        \E c \in cats : c.name = SeedValues[i][1] /\ c.type = SeedValues[i][2]

\* C25: once ensureSchema has succeeded no two categories share a (name,
\* type); a seedDefaultCategories that succeeds leaves every row there was as
\* it was and adds a row only for a (name, type) that had none, so that a run
\* after the first adds nothing.
C25_SeedingDuplicatesIsNoOp ==
    /\ [](catIndex => UniqueNameType(categories))
    /\ [][catIndex => catIndex']_vars
    /\ [][catSeq' # catSeq =>
            /\ categories \subseteq categories'
            /\ \A c \in categories' \ categories :
                 /\ c.id >= catSeq
                 /\ ~\E e \in categories : e.name = c.name /\ e.type = c.type
            /\ AllSeeded(categories')
            /\ AllSeeded(categories) => categories' = categories]_vars
    /\ [][AllSeeded(categories) => AllSeeded(categories')]_vars

\* on a table that held the twin and a "Groceries" expense of its own,
\* seedDefaultCategories has run twice: both rows are as they were, the other
\* six are there
C25_Witness ==
    /\ catIndex
    /\ catSeq = 10 + 2 * Len(SeedValues)
    /\ TwinCategory \in categories
    /\ \E c \in categories : c.id = 9 /\ c.name = "Groceries" /\ c.type = "expense"
    /\ Cardinality(categories) = Len(SeedValues) + 1

-----------------------------------------------------------------------------
(* The start of initDB and of setupDatabase: the retry loop, then
   ensureSchema and seedDefaultCategories.  time.Sleep(retryDelay) between
   two attempts changes no state. *)

\* maxRetries := 60
MaxRetries == 60

\* a loop that sleeps and tries again without counting
AfterFailedPing_RetryForever(i) == [ pc |-> "open", i |-> i ]

\* after a failed Ping and db.Close(): "if i < maxRetries-1 { ...; continue }"
\* and the i++ of the loop, or the return of the error
AfterFailedPing(i) ==
    IF i < MaxRetries - 1
    THEN [ pc |-> "open", i |-> i + 1 ]
    ELSE [ pc |-> "failed_connect", i |-> i ]

InitDial ==
    /\ phase = "startup"
    /\ redisClient = "nil"
    /\ today = WindowDays + 1
    /\ categories \in { {}, SeedCategories }
    /\ store = {}
    /\ nextId = 1
    /\ cache = [k \in Keys |-> Absent]
    /\ handler = [p \in Procs |-> "none"]
    /\ pc = [p \in Procs |-> "idle"]
    /\ body = [p \in Procs |-> NoBody]
    /\ status = [p \in Procs |-> 0]
    /\ ops = [p \in Procs |-> <<>>]
    /\ omits = [p \in Procs |-> {}]
    /\ overtaken = [p \in Procs |-> FALSE]
    /\ stale = [p \in Procs |-> FALSE]
    /\ changed = [p \in Procs |-> FALSE]
    /\ input = [p \in Procs |-> <<>>]
    /\ accepted = 0
    /\ round = 1
    /\ log = <<>>
    /\ cursor = 1
    /\ lost = FALSE
    /\ age = [k \in Keys |-> 0]
    /\ budgets = {}
    /\ budgetSeq = 1
    /\ seedPc = [s \in Procs |-> "idle"]
    /\ seedTx = [s \in Procs |-> NoRows]
    /\ seedRuns = 0
    /\ catIndex = FALSE
    /\ catSeq = MaxId(categories) + 1
    /\ dialFn \in {"initDB", "setupDatabase"}
    /\ dialPc = "open"
    /\ attempt = 0
    /\ openConns = {}

\* what a step of the start leaves alone, but for the tables of categories
DialFrame ==
    UNCHANGED <<boot, today, store, nextId, cache, slot, ghost, run, pair, clock,
                budgets, budgetSeq, seedPc, seedTx, seedRuns, dialFn>>

\* db = stdlib.OpenDB(*config)
Dial_Open ==
    /\ dialPc = "open"
    /\ openConns' = openConns \cup {attempt}
    /\ dialPc' = "ping"
    /\ UNCHANGED <<categories, catIndex, catSeq, attempt>>
    /\ DialFrame

\* db.Ping(): on an error db.Close(), then the next attempt or the return; on
\* success the break
Dial_Ping ==
    /\ dialPc = "ping"
    /\ \E pingOk \in BOOLEAN :
         IF pingOk
         THEN /\ dialPc' = "schema"
              /\ UNCHANGED <<attempt, openConns>>
         ELSE /\ openConns' = openConns \ {attempt}
              /\ dialPc' = AfterFailedPing(attempt).pc
              /\ attempt' = AfterFailedPing(attempt).i
    /\ UNCHANGED <<categories, catIndex, catSeq>>
    /\ DialFrame

\* ensureSchema(db) and the return of its error; setupDatabase closes db
\* when it returns
Dial_EnsureSchema ==
    /\ dialPc = "schema"
    /\ \E dbOk \in BOOLEAN :
         /\ SchemaExec(dbOk)
         /\ dialPc' = IF SchemaOk(dbOk) THEN "seed" ELSE "failed_schema"
         /\ openConns' = IF ~SchemaOk(dbOk) /\ dialFn = "setupDatabase"
                         THEN openConns \ {attempt} ELSE openConns
    /\ UNCHANGED <<catSeq, attempt>>
    /\ DialFrame

\* seedDefaultCategories(db): initDB logs its error and returns nil,
\* setupDatabase returns it; setupDatabase closes db when it returns
Dial_Seed ==
    /\ dialPc = "seed"
    /\ \E dbOk \in BOOLEAN :
         /\ SeedExec(dbOk)
         /\ dialPc' = IF SeedOk(dbOk) \/ dialFn = "initDB" THEN "ready" ELSE "failed_seed"
    /\ openConns' = IF dialFn = "setupDatabase" THEN openConns \ {attempt} ELSE openConns
    /\ UNCHANGED <<catIndex, attempt>>
    /\ DialFrame

NextDial == Dial_Open \/ Dial_Ping \/ Dial_EnsureSchema \/ Dial_Seed

\* the function goes on until it returns
SpecDial == InitDial /\ [][NextDial]_vars /\ WF_vars(NextDial)

\* C26: the start makes at most MaxRetries attempts, one after the other; a
\* failed attempt's connection is closed before the next; the first Ping
\* that succeeds ends the loop; the loop returns an error only after the
\* last attempt has failed; the tables are touched only after a Ping has
\* succeeded, over the connection of that attempt; and the function returns.
C26_RetryLoopTerminates ==
    /\ [](/\ attempt \in 0..(MaxRetries - 1)
          /\ openConns \subseteq {attempt}
          /\ dialPc \in {"ping", "schema", "seed"} => openConns = {attempt}
          /\ dialPc \in {"open", "failed_connect"} => openConns = {})
    /\ [][dialPc = "ping" =>
            \/ dialPc' = "schema" /\ attempt' = attempt
            \/ dialPc' = "open" /\ attempt' = attempt + 1
            \/ dialPc' = "failed_connect" /\ attempt = MaxRetries - 1]_vars
    /\ [][dialPc \notin {"open", "ping"} =>
            /\ dialPc' \notin {"open", "ping"}
            /\ attempt' = attempt
            /\ openConns' \subseteq openConns]_vars
    /\ [][<<categories, catIndex, catSeq>>' # <<categories, catIndex, catSeq>> =>
            /\ dialPc \in {"schema", "seed"}
            /\ openConns = {attempt}]_vars
    /\ <>(dialPc \in {"ready", "failed_connect", "failed_schema", "failed_seed"})

\* initDB has connected at its last attempt, after every other one failed,
\* and has gone on to create the schema and to seed
C26_Witness ==
    /\ dialFn = "initDB"
    /\ dialPc = "ready"
    /\ attempt = MaxRetries - 1
    /\ openConns = {attempt}
    /\ catIndex /\ AllSeeded(categories)

====
